---- MODULE Spec2Model ----
(***************************************************************************)
(* MWEngine: AudioBuffer (mixing) and SynthEvent (rendering, caching,      *)
(* geometry, deletion) as state machines.                                  *)
(*                                                                         *)
(* Samples, amplitudes, volumes and phases are fixed-point integers:       *)
(*   - a phase is counted in units of 1/MAX_PHASE of a cycle,              *)
(*   - an amplitude in units of 1/40 (0.7 is 28), a mix gain of 1.0 is 1,  *)
(*   - a length in steps in units of 1/LengthRes step.                     *)
(* Sequences are 1-based: the C++ index k is element k+1. The envelope and *)
(* the arpeggiator are left out: buffers hold the samples before the       *)
(* envelope is applied.                                                    *)
(***************************************************************************)
EXTENDS Integers, Sequences, FiniteSets, TLC

VARIABLES
    ev,     \* the primary SynthEvent (a record of its fields)
    osc2,   \* its secondary oscillator (a SynthEvent with hasParent), or NullEvent
    r,      \* the render pass in progress on ev: position and locals of render()
    h,      \* history of the calls made so far (observations, no program state)
    eng,    \* the engine's settings (AudioEngineProps, AudioEngine)
    mix     \* operands and result of a stand-alone AudioBuffer::mergeBuffers call

vars == <<ev, osc2, r, h, eng, mix>>

(***************************************************************************)
(* Bounds of the model                                                     *)
(***************************************************************************)
MaxChannels   == 2   \* channel counts of the buffers handed to mergeBuffers
MaxFrames     == 3   \* frame counts of the buffers handed to mergeBuffers
MaxSample     == 1   \* sample values of those buffers: 0..MaxSample
MaxGain       == 2   \* mix volumes handed to mergeBuffers: 1..MaxGain
MaxPosition   == 1   \* sequencer positions of an event: 0..MaxPosition
MaxSteps      == 2   \* lengths of an event, in steps: up to MaxSteps
MaxNesting    == 3   \* calls of render() on the stack before the stack is exhausted
MaxWriteIndex == 4   \* no render pass is started beyond this cache write index
MaxRingOut    == 6   \* no synthesize call once this many samples were synthesized
MaxBufferPos  == 5   \* sequencer positions of a callback window: 0..MaxBufferPos
MaxEvents     == 3   \* events allocated at a time, and entries in the instrument's collections
MaxPlucks     == 4   \* setFrequency calls on a plucked-string event
MaxArpStep    == 1   \* the last step of the arpeggiator (the first is 0)
MaxShifts     == 3   \* calls that change a frequency on an event with an arpeggiator

\* the engine's settings
BytesPerTick   == 2   \* AudioEngine::bytes_per_tick: samples per sequencer step
BytesPerBar    == 96  \* AudioEngine::bytes_per_bar: samples per bar
BufferSize     == 2   \* AudioEngineProps::BUFFER_SIZE: samples per callback
OutputChannels == 1   \* AudioEngineProps::OUTPUT_CHANNELS

\* lengths are floats in the code: here in units of 1/LengthRes step
LengthRes == 2

\* MAX_PHASE (1.0) in phase units, and the sample rate in Hz: a frequency
\* of f Hz advances the phase by f * MAX_PHASE / SAMPLE_RATE units per sample
MAX_PHASE   == 4
SAMPLE_RATE == 4

\* TWO_PI (6.28) in phase units: the phase of PWM is counted in radians
TWO_PI == 25

(***************************************************************************)
(* AudioBuffer                                                             *)
(***************************************************************************)
NullBuffer == [null |-> TRUE]

RECURSIVE Zeros(_)
Zeros(n) == IF n <= 0 THEN <<>> ELSE Append(Zeros(n - 1), 0)

\* AudioBuffer::AudioBuffer: every channel is a copy of a silent buffer
NewAudioBuffer(aId, aAmountOfChannels, aBufferSize) ==
    [null             |-> FALSE,
     id               |-> aId,
     loopeable        |-> FALSE,
     amountOfChannels |-> aAmountOfChannels,
     bufferSize       |-> aBufferSize,
     buffers          |-> [c \in 1..aAmountOfChannels |-> Zeros(aBufferSize)]]

\* the inner loop of mergeBuffers over one channel: i is the write index,
\* rd the read index, both as in the code (0-based)
RECURSIVE MergeChannel(_, _, _, _, _, _, _, _, _)
MergeChannel(targetBuffer, srcBuffer, i, rd, maxWriteOffset, sourceLength, loopeable, aMixVolume, written) ==
    IF ~(i < maxWriteOffset)
    THEN [chan |-> targetBuffer, written |-> written]
    ELSE IF rd >= sourceLength /\ ~loopeable
    THEN [chan |-> targetBuffer, written |-> written]
    ELSE LET rr == IF rd >= sourceLength THEN 0 ELSE rd
         IN  MergeChannel(
                 [targetBuffer EXCEPT ![i + 1] = @ + srcBuffer[rr + 1] * aMixVolume],
                 srcBuffer, i + 1, rr + 1, maxWriteOffset, sourceLength,
                 loopeable, aMixVolume, written + 1)

\* the amount of samples one channel's loop writes
MergeWritten(target, aBuffer, aReadOffset, aWriteOffset, maxWriteOffset) ==
    MergeChannel(target.buffers[1], aBuffer.buffers[1], aWriteOffset, aReadOffset,
                 maxWriteOffset, aBuffer.bufferSize, aBuffer.loopeable, 1, 0).written

\* mutant: the guard forgets the absent source, which is then dereferenced
MergeGuardNoNull(target, aBuffer, aWriteOffset) ==
    IF aBuffer = NullBuffer THEN "fault"
    ELSE IF aWriteOffset >= target.bufferSize THEN "noop" ELSE "merge"

\* the early return of mergeBuffers
MergeGuard(target, aBuffer, aWriteOffset) ==
    IF aBuffer = NullBuffer \/ aWriteOffset >= target.bufferSize
    THEN "noop" ELSE "merge"

\* mutant: the write length is not clipped to the target's size
MergeWriteLengthUnclipped(target, aBuffer, aWriteOffset) ==
    aBuffer.bufferSize

\* the length of the write region of mergeBuffers
MergeWriteLength(target, aBuffer, aWriteOffset) ==
    IF aWriteOffset + aBuffer.bufferSize > target.bufferSize
    THEN target.bufferSize - aWriteOffset
    ELSE aBuffer.bufferSize

\* AudioBuffer::mergeBuffers: the target after the call, the value returned
\* and whether the call faulted
MergeBuffers(target, aBuffer, aReadOffset, aWriteOffset, aMixVolume) ==
    LET guard == MergeGuard(target, aBuffer, aWriteOffset) IN
    IF guard # "merge"
    THEN [buf |-> target, written |-> 0, fault |-> (guard = "fault")]
    ELSE
    LET sourceLength   == aBuffer.bufferSize
        writeLength    == MergeWriteLength(target, aBuffer, aWriteOffset)
        maxWriteOffset == aWriteOffset + writeLength
        \* the channel loop stops at the first channel the source lacks
        c == IF target.amountOfChannels <= aBuffer.amountOfChannels
             THEN target.amountOfChannels ELSE aBuffer.amountOfChannels
        perChannel(k) ==
            MergeChannel(target.buffers[k], aBuffer.buffers[k], aWriteOffset,
                         aReadOffset, maxWriteOffset, sourceLength,
                         aBuffer.loopeable, aMixVolume, 0)
        writtenSamples == c * MergeWritten(target, aBuffer, aReadOffset,
                                           aWriteOffset, maxWriteOffset)
    IN  [buf     |-> [target EXCEPT !.buffers =
                         [k \in 1..target.amountOfChannels |->
                             IF k <= c THEN perChannel(k).chan ELSE target.buffers[k]]],
         written |-> writtenSamples \div c,
         fault   |-> FALSE]

\* AudioBuffer::silenceBuffers, on the pooled and on the per-sample path
SilenceBuffers(b) ==
    [b EXCEPT !.buffers = [c \in 1..b.amountOfChannels |-> Zeros(b.bufferSize)]]

(***************************************************************************)
(* SynthEvent                                                              *)
(***************************************************************************)
NullEvent == [null |-> TRUE]
NoRender  == [pc |-> "idle"]
NoMix     == [phase |-> "none"]
NoEngine  == [none |-> TRUE]

Waveforms == {"SINE", "SAW"}

\* the instrument descriptors handed to the constructors and to
\* updateProperties (the arpeggiator is not active in any of them)
Instruments ==
    { [waveform |-> w, volume |-> 1, osc2active |-> a, osc2waveform |-> w2,
       osc2detune |-> 0, osc2octaveShift |-> 0, osc2fineShift |-> 0] :
         w \in Waveforms, a \in BOOLEAN, w2 \in Waveforms }

\* the waveform generators of render(): the amplitude at phase p, in units
\* of 1/40 (0.7 is 28, 1.0 is 40)
Amp(type, p) ==
    IF type = "SINE"
    THEN IF 2 * p < MAX_PHASE
         THEN (28 * (MAX_PHASE * MAX_PHASE - (4 * p - MAX_PHASE) * (4 * p - MAX_PHASE)))
                  \div (MAX_PHASE * MAX_PHASE)
         ELSE (28 * ((4 * p - 3 * MAX_PHASE) * (4 * p - 3 * MAX_PHASE) - MAX_PHASE * MAX_PHASE))
                  \div (MAX_PHASE * MAX_PHASE)
    ELSE IF type = "PWM"
    THEN \* 4 * pwAmp below PI (the pulse width LFO is at rest), -4 * pwAmp above
         IF 2 * p < TWO_PI THEN 12 ELSE 0 - 12
    ELSE \* SAW: the fractional part of the phase
         ((p % MAX_PHASE) * 40) \div MAX_PHASE

\* the phase update of render() for every waveform but PWM
NextPhase(p, incr) ==
    IF p + incr > MAX_PHASE THEN p + incr - MAX_PHASE ELSE p + incr

\* the phase update of PWM: in radians, wrapped at TWO_PI
NextPhasePWM(p, frequency) ==
    LET q == p + (TWO_PI * frequency) \div SAMPLE_RATE
    IN  IF q > TWO_PI THEN q - TWO_PI ELSE q

\* aOutputBuffer->getBufferForChannel( c )[ i ] = v, for every channel; a
\* write outside the buffer is lost
WriteSample(b, i, v) ==
    IF b = NullBuffer \/ i < 0 \/ i >= b.bufferSize THEN b
    ELSE [b EXCEPT !.buffers = [c \in 1..b.amountOfChannels |-> [b.buffers[c] EXCEPT ![i + 1] = v]]]

\* mutant: OSC2 present or not, the oscillator writes at full amplitude
MixedAmplitudeFull(amp, hasOSC2) == amp

\* if ( hasOSC2 ) amp *= .5
MixedAmplitude(amp, hasOSC2) == IF hasOSC2 THEN amp \div 2 ELSE amp

\* one iteration of render()'s sample loop, without its cancel check
LoopBody(e, b, i, hasOSC2) ==
    LET amp == Amp(e.type, e.phase)
    IN  [e   |-> [e EXCEPT !.phase = IF e.type = "PWM"
                                     THEN NextPhasePWM(e.phase, e.frequency)
                                     ELSE NextPhase(e.phase, e.phaseIncr)],
         b   |-> WriteSample(b, i, MixedAmplitude(amp, hasOSC2) * e.volume),
         dry |-> amp * e.volume]

\* the sample loop of render() when nothing interleaves with it
RECURSIVE RenderLoop(_, _, _, _, _)
RenderLoop(e, b, i, renderEndOffset, hasOSC2) ==
    IF ~(i < renderEndOffset) THEN [e |-> e, b |-> b, i |-> i]
    ELSE LET it == LoopBody(e, b, i, hasOSC2)
         IN  IF it.e.cancel THEN [e |-> it.e, b |-> it.b, i |-> i]
             ELSE RenderLoop(it.e, it.b, i + 1, renderEndOffset, hasOSC2)

\* the locals render() computes before its loop
RenderLocals(e, o, b) ==
    LET renderStartOffset == IF eng.EVENT_CACHING /\ e.isSequenced
                             THEN e.cacheWriteIndex ELSE 0
        maxSampleIndex    == e.sampleLength - 1
        endOffset         == renderStartOffset + b.bufferSize
    IN  [bufferLength      |-> b.bufferSize,
         hasOSC2           |-> o # NullEvent,
         renderStartOffset |-> renderStartOffset,
         maxSampleIndex    |-> maxSampleIndex,
         renderEndOffset   |-> IF endOffset > maxSampleIndex THEN maxSampleIndex
                               ELSE endOffset,
         silence           |-> endOffset > maxSampleIndex]

\* fields the base classes of SynthEvent initialise
BaseEventFields ==
    [sampleStart |-> 0, sampleEnd |-> 0, minLength |-> 0,
     updateAfterUnlock |-> FALSE, bulkCacheable |-> FALSE]

\* BaseCacheableAudioEvent::resetCache
BaseResetCache(e) ==
    [e EXCEPT !.cacheWriteIndex = 0, !.cachingCompleted = FALSE]

\* BaseAudioEvent::destroyBuffer
DestroyBuffer(e) == [e EXCEPT !.buffer = NullBuffer]

\* BaseAudioEvent::lock
LockEvent(e) == [e EXCEPT !.locked = TRUE]

\* an id for a newly allocated buffer: not the one a render in progress holds
FreshId == IF r.pc # "idle" /\ r.buf = 1 THEN 2 ELSE 1

\* mutant: every frequency set becomes the base frequency
SetFrequencyStoring(e, o, aFrequency, allOscillators, storeAsBaseFrequency) ==
    LET set(x, f) == [x EXCEPT !.frequency = f,
                               !.phaseIncr = (f * MAX_PHASE) \div SAMPLE_RATE,
                               !.baseFrequency = f]
    IN  [e |-> set(e, aFrequency),
         o |-> IF allOscillators /\ o # NullEvent
               THEN set(o, (o.frequency * aFrequency) \div e.frequency)
               ELSE o]

\* SynthEvent::setFrequency, on e and (allOscillators) on its OSC2 o
SetFrequency(e, o, aFrequency, allOscillators, storeAsBaseFrequency) ==
    LET set(x, f) == [x EXCEPT !.frequency = f,
                               !.phaseIncr = (f * MAX_PHASE) \div SAMPLE_RATE,
                               !.baseFrequency = IF storeAsBaseFrequency THEN f ELSE @]
    IN  [e |-> set(e, aFrequency),
         o |-> IF allOscillators /\ o # NullEvent
               THEN set(o, (o.frequency * aFrequency) \div e.frequency)
               ELSE o]

\* SynthEvent::applyModules without an arpeggiator: both oscillators return
\* to their base frequency
ApplyModules(e, o) ==
    LET e1 == SetFrequency(e, NullEvent, e.baseFrequency, FALSE, TRUE).e
    IN  [e |-> e1,
         o |-> IF o = NullEvent THEN o
               ELSE SetFrequency(o, NullEvent, o.baseFrequency, FALSE, TRUE).e]

\* mutant: the end of the event is computed from the previous length
SequencedGeometryOldEnd(e) ==
    [e EXCEPT !.cancel       = IF e.caching THEN TRUE ELSE @,
              !.sampleLength = (e.length * BytesPerTick) \div LengthRes,
              !.sampleStart  = e.position * BytesPerTick,
              !.sampleEnd    = e.position * BytesPerTick + e.sampleLength]

\* calculateBuffers, sequenced branch: cancel a caching render, then the
\* event's range in samples
SequencedGeometry(e) ==
    [e EXCEPT !.cancel       = IF e.caching THEN TRUE ELSE @,
              !.sampleLength = (e.length * BytesPerTick) \div LengthRes,
              !.sampleStart  = e.position * BytesPerTick,
              !.sampleEnd    = e.position * BytesPerTick
                               + (e.length * BytesPerTick) \div LengthRes]

\* calculateBuffers, live branch
LiveGeometry(e) ==
    [e EXCEPT !.minLength     = BytesPerBar \div 32,
              !.sampleLength  = BytesPerBar,
              !.hasMinLength  = FALSE]

\* mutant: a locked event is recomputed all the same
CalculateLockedAnyway(e) ==
    [SequencedGeometry(e) EXCEPT !.updateAfterUnlock = TRUE]

\* calculateBuffers on a locked event
CalculateLocked(e) == [e EXCEPT !.updateAfterUnlock = TRUE]

\* calculateBuffers: the buffer is replaced when the length changed or
\* there is none; an OSC2 gets none
Reallocate(e, oldLength) ==
    IF e.sampleLength # oldLength \/ e.buffer = NullBuffer
    THEN IF ~e.hasParent
         THEN [e EXCEPT !.buffer =
                  NewAudioBuffer(FreshId, OutputChannels,
                                 IF eng.EVENT_CACHING /\ e.isSequenced
                                 THEN e.sampleLength ELSE BufferSize)]
         ELSE DestroyBuffer(e)
    ELSE e

Ok(e, o) == [e |-> e, o |-> o, b |-> e.buffer, fault |-> "none"]

Worst(f, g) == IF f # "none" THEN f ELSE g

\* calculateBuffers, cache and render call each other: a call from within
\* one of them is handed to Invoke, defined after them
RECURSIVE Invoke(_)

ToCache(e, o, d) ==
    [fn |-> "cache", e |-> e, o |-> o, b |-> NullBuffer, own |-> TRUE, d |-> d]

ToCalculateBuffers(e, o, d) ==
    [fn |-> "calculateBuffers", e |-> e, o |-> o, b |-> NullBuffer, own |-> TRUE, d |-> d]

ToRender(e, o, b, own, d) ==
    [fn |-> "render", e |-> e, o |-> o, b |-> b, own |-> own, d |-> d]

\* SynthEvent::calculateBuffers on event e with OSC2 o; d counts the calls
\* of render() the stack still has room for
CalculateBuffers(e, o, d) ==
    IF e.locked THEN Ok(CalculateLocked(e), o)
    ELSE
    LET oldLength == IF e.isSequenced THEN e.sampleLength ELSE BufferSize
        e1 == IF e.isSequenced THEN SequencedGeometry(e) ELSE LiveGeometry(e)
        e2 == Reallocate(e1, oldLength)
    IN  IF ~(e2.isSequenced /\ eng.EVENT_CACHING) THEN Ok(e2, o)
        ELSE
        \* SynthEvent::resetCache: this event's cache and its OSC2's
        LET e3 == BaseResetCache(e2)
            o3 == IF o = NullEvent THEN o ELSE BaseResetCache(o)
        IN  IF e3.autoCache /\ ~e3.hasParent
            THEN IF ~e3.caching THEN Invoke(ToCache(e3, o3, d))
                 ELSE Ok([e3 EXCEPT !.cancel = TRUE], o3)
            ELSE Ok(e3, o3)

\* cache(), mutated: the event is marked as caching before its buffer is
\* looked at
CacheMarked(e, o, d) ==
    IF e.buffer = NullBuffer THEN Ok([e EXCEPT !.caching = TRUE], o)
    ELSE Invoke(ToRender([e EXCEPT !.caching = TRUE], o, e.buffer, TRUE, d))

\* SynthEvent::cache( false )
Cache(e, o, d) ==
    IF e.buffer = NullBuffer THEN Ok(e, o)
    ELSE Invoke(ToRender([e EXCEPT !.caching = TRUE], o, e.buffer, TRUE, d))

\* render(): what OSC2 rendered (sec) is merged into the output at the
\* render's start offset; lp is what the sample loop left
MergeSecondary(lp, L, sec) ==
    [e     |-> lp.e,
     o     |-> sec.e,
     b     |-> MergeBuffers(lp.b, sec.b, 0, L.renderStartOffset, 1).buf,
     i     |-> lp.i,
     temp  |-> sec.b,
     fault |-> sec.fault]

\* the OSC2 part of render(), after the sample loop left lp: OSC2 renders
\* into a temporary buffer of the length of the pass
RenderSecondary(lp, o, L, d) ==
    LET tempLength == IF eng.EVENT_CACHING /\ lp.e.isSequenced
                      THEN L.renderEndOffset - lp.e.cacheWriteIndex
                      ELSE L.bufferLength
        skip(fault) == [e |-> lp.e, o |-> o, b |-> lp.b, i |-> lp.i,
                        temp |-> NullBuffer, fault |-> fault]
    IN  IF ~(L.hasOSC2 /\ ~lp.e.cancel) THEN skip("none")
        ELSE IF tempLength < 0 THEN skip("bad alloc")
        ELSE MergeSecondary(lp, L,
                 Invoke(ToRender(o, NullEvent,
                                 NewAudioBuffer(0, lp.b.amountOfChannels, tempLength),
                                 FALSE, d - 1)))

\* mutant: the write index is set to the index the loop stopped at
AdvanceWriteIndexTo(e, i) ==
    IF ~e.hasParent THEN [e EXCEPT !.cacheWriteIndex = i] ELSE e

\* render(): if ( !hasParent ) _cacheWriteIndex += i
AdvanceWriteIndex(e, i) ==
    IF ~e.hasParent THEN [e EXCEPT !.cacheWriteIndex = @ + i] ELSE e

\* mutant: the cancellation request outlives the pass
CancelKept(e) == e

\* the last statement of render(): _cancel = false
CancelCleared(e) == [e EXCEPT !.cancel = FALSE]

\* render() of a cancelled pass: what calculateBuffers() returned (cb), and
\* _cancel = false
Recalculated(cb, s, own) ==
    [e     |-> CancelCleared(cb.e),
     o     |-> cb.o,
     b     |-> IF own THEN cb.e.buffer ELSE s.b,
     fault |-> Worst(s.fault, cb.fault)]

\* the end of render(), from the advance of the write index on; s is what
\* the loop and the OSC2 part left, own: the output buffer is the event's own
RenderFinish(s, maxSampleIndex, own, d) ==
    LET e4 == AdvanceWriteIndex(s.e, s.i)
        e5 == IF own THEN [e4 EXCEPT !.buffer = s.b] ELSE e4
        done(e) == [e |-> e, o |-> s.o, b |-> IF own THEN e.buffer ELSE s.b,
                    fault |-> s.fault]
    IN  IF eng.EVENT_CACHING /\ e5.isSequenced
        THEN IF e5.cancel
             THEN Recalculated(
                      Invoke(ToCalculateBuffers([e5 EXCEPT !.caching = FALSE], s.o, d - 1)),
                      s, own)
             ELSE done(CancelCleared(
                          [e5 EXCEPT !.caching = FALSE,
                                     !.cachingCompleted = IF s.i = maxSampleIndex THEN TRUE ELSE @,
                                     !.autoCache = IF e5.bulkCacheable THEN TRUE ELSE @]))
        ELSE done(CancelCleared(e5))

\* SynthEvent::render( b ) on event e with OSC2 o, run without interleaving;
\* own: b is e's own buffer
RenderAll(e, o, b, own, d) ==
    IF d <= 0 THEN [e |-> e, o |-> o, b |-> b, fault |-> "stack overflow"]
    ELSE
    LET L  == RenderLocals(e, o, b)
        b0 == IF L.silence THEN SilenceBuffers(b) ELSE b
    IN  RenderFinish(
            RenderSecondary(
                RenderLoop(e, b0, L.renderStartOffset, L.renderEndOffset, L.hasOSC2),
                o, L, d),
            L.maxSampleIndex, own, d)

Invoke(c) ==
    IF c.fn = "render" THEN RenderAll(c.e, c.o, c.b, c.own, c.d)
    ELSE IF c.fn = "cache" THEN Cache(c.e, c.o, c.d)
    ELSE CalculateBuffers(c.e, c.o, c.d)

RECURSIVE InitEvent(_, _, _, _, _, _)
RECURSIVE CreateOSC2(_, _, _, _, _)

\* the end of init(), after setFrequency left sf: applyModules, the minimum
\* length flag and calculateBuffers
InitBuffers(sf, aIsSequenced) ==
    LET am == ApplyModules(sf.e, sf.o)
    IN  CalculateBuffers([am.e EXCEPT !.hasMinLength = aIsSequenced], am.o, MaxNesting)

\* the frequency createOSC2 gives OSC2: detune in cents, octave shift, fine shift
Osc2Frequency(frequency, instr) ==
    LET abs(x) == IF x < 0 THEN -x ELSE x
        lfo2Tmpfreq == frequency + (frequency * instr.osc2detune) \div 1200
        shifted == IF instr.osc2octaveShift = 0 THEN lfo2Tmpfreq
                   ELSE IF instr.osc2octaveShift < 0
                   THEN lfo2Tmpfreq \div abs(instr.osc2octaveShift * 2)
                   ELSE lfo2Tmpfreq + lfo2Tmpfreq * abs(instr.osc2octaveShift * 2 - 1)
        fineShift == (lfo2Tmpfreq * abs(instr.osc2fineShift)) \div 12
    IN  IF instr.osc2fineShift < 0 THEN shifted - fineShift ELSE shifted + fineShift

\* SynthEvent::createOSC2 on event e with OSC2 o (or none yet): the OSC2
\* afterwards; aLength is an int, in steps
CreateOSC2(e, o, aPosition, aLength, instr) ==
    IF ~instr.osc2active THEN o
    ELSE
    LET o0 == IF o # NullEvent THEN o
              ELSE IF ~e.isSequenced
              THEN InitEvent(instr, e.frequency, 0, 1, TRUE, FALSE).e
              ELSE [InitEvent(instr, e.frequency, aPosition, aLength, TRUE, TRUE).e
                       EXCEPT !.autoCache = FALSE]
        o1 == [o0 EXCEPT !.type = instr.osc2waveform, !.position = aPosition,
                         !.length = aLength * LengthRes]
        o2 == SetFrequency(o1, NullEvent, Osc2Frequency(e.frequency, instr), TRUE, TRUE).e
    IN  IF o2.caching THEN [o2 EXCEPT !.cancel = TRUE] ELSE o2

\* SynthEvent::destroyOSC2
DestroyOSC2(o) == NullEvent

\* SynthEvent::init; aLength is an int, in steps
InitEvent(aInstrument, aFrequency, aPosition, aLength, aHasParent, aIsSequenced) ==
    LET e0 == [null |-> FALSE,
               buffer |-> NullBuffer,
               locked |-> FALSE,
               updateAfterUnlock |-> BaseEventFields.updateAfterUnlock,
               frequency |-> aFrequency,
               baseFrequency |-> aFrequency,
               phase |-> 0,
               phaseIncr |-> 0,
               position |-> aPosition,
               length |-> aLength * LengthRes,
               hasParent |-> aHasParent,
               isSequenced |-> aIsSequenced,
               queuedForDeletion |-> FALSE,
               deleteMe |-> FALSE,
               hasMinLength |-> FALSE,
               minLength |-> BaseEventFields.minLength,
               cancel |-> FALSE,
               caching |-> FALSE,
               cachingCompleted |-> FALSE,
               autoCache |-> FALSE,
               bulkCacheable |-> BaseEventFields.bulkCacheable,
               type |-> aInstrument.waveform,
               volume |-> aInstrument.volume,
               sampleStart |-> BaseEventFields.sampleStart,
               sampleEnd |-> BaseEventFields.sampleEnd,
               sampleLength |-> 0,
               cacheWriteIndex |-> 0]
        o1 == IF ~aHasParent /\ aInstrument.osc2active
              THEN CreateOSC2(e0, NullEvent, aPosition, aLength, aInstrument)
              ELSE NullEvent
    IN  InitBuffers(SetFrequency(e0, o1, aFrequency, TRUE, TRUE), aIsSequenced)

\* the constructors of a sequenced event: init, then setAutoCache; aLength
\* is a float that init receives as an int
NewSequencedEvent(aFrequency, aPosition, aLength, aInstrument, aAutoCache, hasParent) ==
    [InitEvent(aInstrument, aFrequency, aPosition, aLength \div LengthRes, hasParent, TRUE)
        EXCEPT !.e.autoCache = aAutoCache]

\* the constructors of a live event
NewLiveEvent(aFrequency, aInstrument, hasParent) ==
    InitEvent(aInstrument, aFrequency, 0, 1, hasParent, FALSE)

\* the end of updateProperties, after applyModules left am and _caching was
\* read as caching: a caching render is cancelled, otherwise the buffers are
\* recomputed
CancelOrCalculateSeen(am, caching, d) ==
    IF caching
    THEN Ok([am.e EXCEPT !.cancel = TRUE],
            IF am.o # NullEvent THEN [am.o EXCEPT !.cancel = TRUE] ELSE am.o)
    ELSE CalculateBuffers(am.e, am.o, d)

\* the end of updateProperties when nothing interleaves with it
CancelOrCalculate(am, d) == CancelOrCalculateSeen(am, am.e.caching, d)

\* updateProperties up to its test of _caching: the fields, OSC2 and the
\* modules; aLength is a float, createOSC2 receives it as an int
UpdatedFields(e, o, aPosition, aLength, aInstrument) ==
    LET e1 == [e EXCEPT !.type = aInstrument.waveform, !.position = aPosition,
                        !.length = aLength]
        o1 == IF aInstrument.osc2active
              THEN CreateOSC2(e1, o, aPosition, aLength \div LengthRes, aInstrument)
              ELSE DestroyOSC2(o)
    IN  ApplyModules(e1, o1)

\* SynthEvent::updateProperties
UpdateProperties(e, o, aPosition, aLength, aInstrument, d) ==
    CancelOrCalculate(UpdatedFields(e, o, aPosition, aLength, aInstrument), d)

\* SynthEvent::unlock
Unlock(e, o, d) ==
    LET e1 == [e EXCEPT !.locked = FALSE]
    IN  [(IF e1.updateAfterUnlock THEN CalculateBuffers(e1, o, d) ELSE Ok(e1, o))
            EXCEPT !.e.updateAfterUnlock = FALSE]

\* mutant: the minimum length is not looked at
DeletableFlagsNow(e, value) == [e EXCEPT !.deleteMe = value]

\* setDeletable on one event
DeletableFlags(e, value) ==
    IF e.isSequenced \/ e.hasMinLength
    THEN [e EXCEPT !.deleteMe = value]
    ELSE [e EXCEPT !.queuedForDeletion = value]

\* SynthEvent::setDeletable, on e and on its OSC2
SetDeletable(e, o, value) ==
    [e |-> DeletableFlags(e, value),
     o |-> IF o # NullEvent THEN DeletableFlags(o, value) ELSE o]

\* the fade-out of synthesize over the last quarter of the buffer
RECURSIVE FadeOut(_, _, _, _)
FadeOut(b, i, k, amt) ==
    IF i >= b.bufferSize THEN b
    ELSE FadeOut([b EXCEPT !.buffers = [c \in 1..b.amountOfChannels |->
                      [b.buffers[c] EXCEPT ![i + 1] = (@ * (amt - k)) \div amt]]],
                 i + 1, k + 1, amt)

\* mutant: the minimum length runs out whether or not deletion was asked for
RingOutAlways(e, aBufferLength) ==
    IF e.minLength > 0 THEN [e EXCEPT !.minLength = @ - aBufferLength] ELSE e

\* synthesize: the rendered samples count towards the minimum length once
\* the event is queued for deletion
RingOut(e, aBufferLength) ==
    IF e.queuedForDeletion /\ e.minLength > 0
    THEN [e EXCEPT !.minLength = @ - aBufferLength] ELSE e

\* the end of synthesize, after render left rn: the ring-out of a live event
\* and the fade-out over the last quarter of the buffer
RungOut(rn, aBufferLength) ==
    LET e2 == RingOut(rn.e, aBufferLength)
    IN  IF e2.minLength <= 0
        THEN LET sd  == SetDeletable([e2 EXCEPT !.hasMinLength = TRUE], rn.o,
                                     e2.queuedForDeletion)
                 amt == aBufferLength \div 4
             IN  [e |-> IF sd.e.queuedForDeletion /\ amt > 0
                        THEN [sd.e EXCEPT !.buffer = FadeOut(@, aBufferLength - amt, 0, amt)]
                        ELSE sd.e,
                  o |-> sd.o, fault |-> rn.fault]
        ELSE [e |-> e2, o |-> rn.o, fault |-> rn.fault]

\* SynthEvent::synthesize
Synthesize(e, o, aBufferLength, d) ==
    LET e1 == IF aBufferLength # BufferSize
              THEN [e EXCEPT !.buffer = NewAudioBuffer(FreshId, OutputChannels, aBufferLength)]
              ELSE e
    IN  RungOut(RenderAll(e1, o, e1.buffer, TRUE, d), aBufferLength)

(***************************************************************************)
(* Specification Spec: one sequenced event without OSC2 in caching mode.   *)
(* One activity renders it sample by sample (cache(), getBuffer()); the    *)
(* other reconfigures it (updateProperties, calculateBuffers, lock,        *)
(* unlock) between any two samples.                                        *)
(***************************************************************************)
Positions   == 0..MaxPosition
Lengths     == { n * LengthRes : n \in 1..MaxSteps }   \* whole steps

\* at a frequency equal to the sample rate the phase is the same after every
\* sample: the progress of a pass is then its position alone
SpecFrequencies == {SAMPLE_RATE}
SpecInstruments ==
    { i \in Instruments : ~i.osc2active /\ i.waveform = "SAW" /\ i.osc2waveform = "SINE" }

NoPass == [ended |-> FALSE]

FreshHistory ==
    [fault      |-> "none",  \* why the process died, if it did
     passCancel |-> FALSE,   \* cancellation was requested during the pass in progress
     owed       |-> FALSE,   \* a pass was cancelled and no uncancelled pass ended since
     last       |-> NoPass,  \* how the last pass ended, if it was the first
                             \* uncancelled one after a cancelled one
     dry1       |-> <<>>,    \* amplitude * volume of the primary oscillator, per sample written
     dry2       |-> NullBuffer, \* what OSC2 rendered into the temporary buffer
     wild       |-> FALSE,   \* the pass wrote through a pointer to a destroyed buffer
     requested  |-> FALSE,   \* setDeletable( true ) was called
     ringOut    |-> 0]       \* samples synthesized while queued for deletion

\* the event and its OSC2 as the constructor left them (res)
Constructed(res, bulk) ==
    /\ ev = [res.e EXCEPT !.bulkCacheable = bulk]
    /\ osc2 = res.o

Init ==
    /\ eng = [EVENT_CACHING |-> TRUE]
    /\ r = NoRender
    /\ mix = NoMix
    /\ h = FreshHistory
    /\ \E f \in SpecFrequencies, pos \in Positions, len \in Lengths,
          instr \in SpecInstruments, auto \in BOOLEAN, bulk \in BOOLEAN :
          Constructed(NewSequencedEvent(f, pos, len, instr, auto, FALSE), bulk)

Alive == h.fault = "none"

Rendering == r.pc # "idle"

\* the buffer the pass writes to is still the event's buffer
Holds == ev.buffer # NullBuffer /\ ev.buffer.id = r.buf

\* the effect of a call of the reconfiguring activity
Reconfigured(res) ==
    /\ ev' = res.e
    /\ osc2' = res.o
    /\ h' = [h EXCEPT !.fault = res.fault,
                      !.passCancel = @ \/ (Rendering /\ res.e.cancel)]
    /\ UNCHANGED <<r, eng, mix>>

\* entry into render( _buffer ): its locals, and the silencing of the buffer
\* when the pass is clipped at the event's end
EnterRender(e) ==
    LET L  == RenderLocals(e, osc2, e.buffer)
    IN  /\ ev' = IF L.silence THEN [e EXCEPT !.buffer = SilenceBuffers(@)] ELSE e
        /\ r' = [pc |-> IF L.renderStartOffset < L.renderEndOffset THEN "loop" ELSE "osc2",
                 buf |-> e.buffer.id,
                 bufferLength |-> L.bufferLength,
                 hasOSC2 |-> L.hasOSC2,
                 renderStartOffset |-> L.renderStartOffset,
                 maxSampleIndex |-> L.maxSampleIndex,
                 renderEndOffset |-> L.renderEndOffset,
                 i |-> L.renderStartOffset]
        /\ h' = [h EXCEPT !.passCancel = FALSE, !.dry1 = <<>>, !.dry2 = NullBuffer,
                          !.wild = FALSE]
        /\ UNCHANGED <<osc2, eng, mix>>

\* cache( false ), up to the first sample of its render pass
CacheCall ==
    /\ Alive /\ ~Rendering
    /\ ev.buffer # NullBuffer
    /\ ev.cacheWriteIndex <= MaxWriteIndex
    /\ EnterRender([ev EXCEPT !.caching = TRUE])

\* getBuffer() of an event whose cache is not complete, up to the first
\* sample of its render pass
GetBufferCall ==
    /\ Alive /\ ~Rendering
    /\ eng.EVENT_CACHING /\ ~ev.cachingCompleted
    /\ ev.cacheWriteIndex <= MaxWriteIndex
    /\ EnterRender(ev)

\* one iteration of the sample loop, with its cancel check. A write through
\* a pointer to a destroyed buffer is lost or lands in the buffer that was
\* allocated since.
RenderSample ==
    /\ Alive /\ r.pc = "loop"
    /\ \E lands \in BOOLEAN :
          LET it   == LoopBody(ev, ev.buffer, r.i, r.hasOSC2)
              stop == it.e.cancel
          IN  /\ (Holds => lands)
              /\ ev' = [it.e EXCEPT !.buffer = IF lands THEN it.b ELSE ev.buffer]
              /\ r' = IF stop THEN [r EXCEPT !.pc = "osc2"]
                      ELSE [r EXCEPT !.i = @ + 1,
                                     !.pc = IF r.i + 1 < r.renderEndOffset
                                            THEN "loop" ELSE "osc2"]
              /\ h' = [h EXCEPT !.dry1 = Append(@, it.dry),
                                !.wild = @ \/ ~Holds]
    /\ UNCHANGED <<osc2, eng, mix>>

\* the effect of the OSC2 part of render() (sec) on the pass in progress
Merged(sec, lands) ==
    /\ ev' = [ev EXCEPT !.buffer = IF lands THEN sec.b ELSE @]
    /\ osc2' = sec.o
    /\ h' = [h EXCEPT !.dry2 = sec.temp, !.fault = sec.fault,
                      !.wild = @ \/ ~Holds]

\* after the loop: OSC2 renders into a temporary buffer that is merged into
\* the output. An OSC2 that was destroyed since the pass began is used
\* after its destruction: the process dies, or nothing is merged.
RenderOsc2 ==
    /\ Alive /\ r.pc = "osc2"
    /\ r' = [r EXCEPT !.pc = "end"]
    /\ IF r.hasOSC2 /\ ~ev.cancel
       THEN IF osc2 = NullEvent
            THEN /\ \E dies \in BOOLEAN :
                       h' = [h EXCEPT !.fault = IF dies THEN "use after free" ELSE @,
                                      !.wild = TRUE]
                 /\ UNCHANGED <<ev, osc2>>
            ELSE \E lands \in BOOLEAN :
                   /\ (Holds => lands)
                   /\ Merged(RenderSecondary([e |-> ev, b |-> ev.buffer, i |-> r.i],
                                             osc2, r, MaxNesting), lands)
       ELSE UNCHANGED <<ev, osc2, h>>
    /\ UNCHANGED <<eng, mix>>

\* the buffer's id matters only while a pass holds it
Settled(e) ==
    IF e.buffer = NullBuffer THEN e ELSE [e EXCEPT !.buffer.id = 1]

\* the end of render(): the write index advances, the caching flags are
\* settled (a cancelled pass recomputes the buffers), the pass returns
Returned(fin) ==
    /\ ev' = Settled(fin.e)
    /\ osc2' = fin.o
    /\ h' = [h EXCEPT !.fault = fin.fault,
                      !.passCancel = FALSE,
                      !.owed = h.passCancel,
                      !.dry1 = <<>>, !.dry2 = NullBuffer, !.wild = FALSE,
                      !.last = IF h.owed /\ ~h.passCancel /\ fin.fault = "none"
                               THEN [ended |-> TRUE,
                                     completed |-> fin.e.cachingCompleted]
                               ELSE NoPass]
    /\ r' = NoRender
    /\ UNCHANGED <<eng, mix>>

RenderReturn ==
    /\ Alive /\ r.pc = "end"
    /\ Returned(RenderFinish([e |-> ev, o |-> osc2, b |-> ev.buffer, i |-> r.i,
                              fault |-> "none"],
                             r.maxSampleIndex, TRUE, MaxNesting))

\* updateProperties( pos, len, instr, 0 )
UpdatePropertiesCall ==
    /\ Alive
    /\ \E pos \in Positions, len \in Lengths, instr \in SpecInstruments :
          Reconfigured(UpdateProperties(ev, osc2, pos, len, instr, MaxNesting))

\* calculateBuffers()
CalculateBuffersCall ==
    /\ Alive
    /\ Reconfigured(CalculateBuffers(ev, osc2, MaxNesting))

\* lock()
LockCall ==
    /\ Alive /\ ~ev.locked
    /\ Reconfigured(Ok(LockEvent(ev), osc2))

\* unlock()
UnlockCall ==
    /\ Alive /\ ev.locked
    /\ Reconfigured(Unlock(ev, osc2, MaxNesting))

Next ==
    \/ CacheCall
    \/ GetBufferCall
    \/ RenderSample
    \/ RenderOsc2
    \/ RenderReturn
    \/ UpdatePropertiesCall
    \/ CalculateBuffersCall
    \/ LockCall
    \/ UnlockCall

Spec == Init /\ [][Next]_vars

(***************************************************************************)
(* Specification SpecMix: one mergeBuffers call on small buffers            *)
(***************************************************************************)

\* the source's samples differ per channel and per frame, the target's are
\* all equal to a base value
MixSource(ch, n, l) ==
    [null |-> FALSE, id |-> 0, loopeable |-> l, amountOfChannels |-> ch,
     bufferSize |-> n,
     buffers |-> [c \in 1..ch |-> [k \in 1..n |-> k + (c - 1) * n]]]

MixTarget(ch, n, base) ==
    [null |-> FALSE, id |-> 0, loopeable |-> FALSE, amountOfChannels |-> ch,
     bufferSize |-> n,
     buffers |-> [c \in 1..ch |-> [k \in 1..n |-> base]]]

MixSources ==
    {NullBuffer} \cup
    { MixSource(ch, n, l) : ch \in 1..MaxChannels, n \in 1..MaxFrames, l \in BOOLEAN }

MixTargets ==
    { MixTarget(ch, n, base) : ch \in 1..MaxChannels, n \in 1..MaxFrames,
                               base \in 0..MaxSample }

InitMix ==
    /\ ev = NullEvent /\ osc2 = NullEvent /\ r = NoRender /\ h = FreshHistory
    /\ eng = NoEngine
    /\ \E t \in MixTargets, s \in MixSources, ro \in 0..(MaxFrames - 1),
          wo \in 0..(MaxFrames + 1), g \in 1..MaxGain :
          /\ (s # NullBuffer => ro < s.bufferSize)
          /\ mix = [phase |-> "call", target |-> t, source |-> s, readOffset |-> ro,
                    writeOffset |-> wo, gain |-> g,
                    result |-> [buf |-> t, written |-> 0, fault |-> FALSE]]

\* target->mergeBuffers( source, readOffset, writeOffset, gain )
Merge ==
    /\ mix.phase = "call"
    /\ mix' = [mix EXCEPT !.phase = "done",
                          !.result = MergeBuffers(mix.target, mix.source,
                                        mix.readOffset, mix.writeOffset, mix.gain)]
    /\ UNCHANGED <<ev, osc2, r, h, eng>>

NextMix == Merge

SpecMix == InitMix /\ [][NextMix]_vars

Min(a, b) == IF a <= b THEN a ELSE b

MixDone == mix.phase = "done"

\* what mix.target holds after gain * source[readIndex(k)] was added to the
\* cnt samples from writeOffset on, on the channels both buffers have
MixedAs(cnt, readIndex(_)) ==
    LET t  == mix.target
        s  == mix.source
        cc == Min(t.amountOfChannels, s.amountOfChannels)
    IN  \A c \in 1..t.amountOfChannels : \A k \in 0..(t.bufferSize - 1) :
            mix.result.buf.buffers[c][k + 1] =
                IF c <= cc /\ mix.writeOffset <= k /\ k < mix.writeOffset + cnt
                THEN t.buffers[c][k + 1]
                     + mix.gain * s.buffers[c][readIndex(k - mix.writeOffset) + 1]
                ELSE t.buffers[c][k + 1]

MixCase(loop) ==
    /\ MixDone
    /\ mix.source # NullBuffer
    /\ mix.source.loopeable = loop
    /\ mix.target.bufferSize >= mix.source.bufferSize
    /\ mix.readOffset = 0

SameIndex(k) == k

\* C4: a non-loopable source of length M merged at readOffset 0 into a target
\* of length N >= M at 0 <= writeOffset < N adds gain * source[k] to
\* target[writeOffset + k] for exactly min(M, N - writeOffset) samples of each
\* common channel, returns that count and changes no other sample.
C4_NonLoopableMix ==
    (MixCase(FALSE) /\ mix.writeOffset < mix.target.bufferSize) =>
        LET cnt == Min(mix.source.bufferSize, mix.target.bufferSize - mix.writeOffset)
        IN  /\ mix.result.written = cnt
            /\ ~mix.result.fault
            /\ MixedAs(cnt, SameIndex)

\* the write region was clipped by the end of the target
C4_Witness ==
    /\ MixCase(FALSE)
    /\ mix.writeOffset > 0
    /\ mix.writeOffset < mix.target.bufferSize
    /\ mix.writeOffset + mix.source.bufferSize > mix.target.bufferSize
    /\ mix.result.written = mix.target.bufferSize - mix.writeOffset
    /\ mix.target.amountOfChannels > mix.source.amountOfChannels

WrappedIndex(k) == k % mix.source.bufferSize

\* C5: a loopable source of length M merged into a target of length N >= M at
\* writeOffset 0 writes exactly N samples per channel, the read index wrapping
\* to 0 each time it reaches M.
C5_LoopableMixFillsTarget ==
    (MixCase(TRUE) /\ mix.writeOffset = 0) =>
        /\ mix.result.written = mix.target.bufferSize
        /\ MixedAs(mix.target.bufferSize, WrappedIndex)

\* C6: mergeBuffers with an absent source, or with writeOffset >= the
\* target's frame count, returns 0, changes no sample and does not fault.
C6_MixNoOp ==
    (MixDone /\ (mix.source = NullBuffer \/ mix.writeOffset >= mix.target.bufferSize)) =>
        /\ mix.result.written = 0
        /\ mix.result.buf = mix.target
        /\ ~mix.result.fault

C6_Witness ==
    /\ MixDone
    /\ mix.source = NullBuffer
    /\ mix.writeOffset < mix.target.bufferSize
    /\ mix.result.written = 0

(***************************************************************************)
(* Properties of Spec                                                      *)
(***************************************************************************)

\* C1: while a render pass is in progress, the buffer it writes to is still
\* the event's buffer: no updateProperties, calculateBuffers or unlock has
\* destroyed or replaced it
C1_BufferKeptDuringRender == (Alive /\ Rendering) => Holds

\* C2: in caching mode, for a sequenced event without parent and with
\* sampleLength >= 1, the first pass without a cancellation request that
\* ends after a cancelled pass ends with cachingCompleted = true
C2_CancellationConverges ==
    (/\ eng.EVENT_CACHING /\ ev.isSequenced /\ ~ev.hasParent
     /\ ev.sampleLength >= 1
     /\ h.last.ended)
        => h.last.completed

\* C3: sampleEnd - sampleStart = sampleLength for the sequenced event and
\* its OSC2, whatever calls of calculateBuffers, updateProperties, lock and
\* unlock went before
GeometryHolds(e) ==
    (e # NullEvent /\ e.isSequenced) => e.sampleEnd - e.sampleStart = e.sampleLength

C3_Geometry == GeometryHolds(ev) /\ GeometryHolds(osc2)

\* calculateBuffers returned early on the locked event after updateProperties
\* moved it: the range in samples is that of the previous position
C3_Witness ==
    /\ ev.isSequenced /\ ev.locked /\ ev.updateAfterUnlock
    /\ ev.sampleStart # ev.position * BytesPerTick
    /\ ev.sampleLength > 0

\* C8: calculateBuffers on a locked event sets the pending-update flag and
\* changes nothing else of the event or of its OSC2
C8_LockedCalculateOnlyDefers ==
    [][(CalculateBuffersCall /\ ev.locked)
          => /\ ev'.updateAfterUnlock
             /\ [ev' EXCEPT !.updateAfterUnlock = ev.updateAfterUnlock] = ev
             /\ osc2' = osc2]_vars

\* the locked event has an update pending while its length in steps is not
\* the length its buffer was allocated for
C8_Witness ==
    /\ ev.locked /\ ev.updateAfterUnlock
    /\ ev.buffer # NullBuffer
    /\ ev.sampleLength # (ev.length * BytesPerTick) \div LengthRes

(***************************************************************************)
(* Specification SpecOsc: one sequenced event with an OSC2 in caching      *)
(* mode, rendered pass after pass with nothing interleaved. At frequency 1 *)
(* the phase advances by a quarter of a cycle per sample.                  *)
(***************************************************************************)
OscFrequencies == {1}
OscInstruments == { i \in Instruments : i.osc2active }

InitOsc ==
    /\ eng = [EVENT_CACHING |-> TRUE]
    /\ r = NoRender
    /\ mix = NoMix
    /\ h = FreshHistory
    /\ \E f \in OscFrequencies, pos \in Positions, len \in Lengths, instr \in OscInstruments :
          Constructed(NewSequencedEvent(f, pos, len, instr, FALSE, FALSE), FALSE)

NextOsc ==
    \/ CacheCall
    \/ GetBufferCall
    \/ RenderSample
    \/ RenderOsc2
    \/ RenderReturn

SpecOsc == InitOsc /\ [][NextOsc]_vars

\* C7: after the OSC2 part of a pass, every sample the pass rendered is half
\* the primary oscillator's amplitude times volume plus half OSC2's
C7_EqualMix ==
    (r.pc = "end" /\ r.hasOSC2 /\ ~ev.cancel /\ h.dry2 # NullBuffer)
        => \A c \in 1..ev.buffer.amountOfChannels, k \in 1..Len(h.dry1) :
              2 * ev.buffer.buffers[c][r.renderStartOffset + k]
                  = h.dry1[k] + h.dry2.buffers[c][k]

(***************************************************************************)
(* Specification SpecLife: one event, live or sequenced, with or without   *)
(* OSC2, in either playback mode: deletion is requested and withdrawn, a   *)
(* live event is synthesized buffer by buffer, its buffers are recomputed. *)
(***************************************************************************)
LifeInstruments ==
    { i \in Instruments : i.waveform = "SAW" /\ i.osc2waveform = "SINE" }

InitLife ==
    /\ eng \in { [EVENT_CACHING |-> c] : c \in BOOLEAN }
    /\ r = NoRender
    /\ mix = NoMix
    /\ h = FreshHistory
    /\ \E instr \in LifeInstruments, seq \in BOOLEAN :
          Constructed(IF seq
                      THEN NewSequencedEvent(SAMPLE_RATE, 0, LengthRes, instr, FALSE, FALSE)
                      ELSE NewLiveEvent(SAMPLE_RATE, instr, FALSE),
                      FALSE)

\* the effect of setDeletable( value ) (res)
Deleted(res, value) ==
    /\ ev' = res.e
    /\ osc2' = res.o
    /\ h' = [h EXCEPT !.requested = @ \/ value]
    /\ UNCHANGED <<r, eng, mix>>

\* setDeletable( value )
SetDeletableOf(value) ==
    /\ Alive
    /\ Deleted(SetDeletable(ev, osc2, value), value)

SetDeletableCall == \E value \in BOOLEAN : SetDeletableOf(value)

\* the effect of synthesize( aBufferLength ) (res)
Synthesized(res, aBufferLength) ==
    /\ ev' = res.e
    /\ osc2' = res.o
    /\ h' = [h EXCEPT !.fault = res.fault,
                      !.ringOut = IF h.requested THEN @ + aBufferLength ELSE @]
    /\ UNCHANGED <<r, eng, mix>>

\* synthesize( aBufferLength ) of a live event
SynthesizeCall ==
    /\ Alive /\ ~ev.isSequenced
    /\ ev.cacheWriteIndex < MaxRingOut
    /\ \E aBufferLength \in {1, BufferSize} :
          Synthesized(Synthesize(ev, osc2, aBufferLength, MaxNesting), aBufferLength)

NextLife ==
    \/ SetDeletableCall
    \/ SynthesizeCall
    \/ CalculateBuffersCall

SpecLife == InitLife /\ [][NextLife]_vars

\* what setDeletable( value ) makes of the flags of e, f being e afterwards
Flagged(e, f, value) ==
    IF e.isSequenced \/ e.hasMinLength
    THEN f.deleteMe = value /\ f.queuedForDeletion = e.queuedForDeletion
    ELSE f.queuedForDeletion = value /\ f.deleteMe = e.deleteMe

\* C9: setDeletable( v ) sets deleteMe to v on an event that is sequenced or
\* has rendered its minimum length and leaves queuedForDeletion alone,
\* otherwise it sets queuedForDeletion to v and leaves deleteMe alone; the
\* OSC2, when there is one, receives the same call
C9_SetDeletable ==
    [][\A value \in BOOLEAN :
          SetDeletableOf(value)
              => /\ Flagged(ev, ev', value)
                 /\ (osc2 # NullEvent => osc2' # NullEvent /\ Flagged(osc2, osc2', value))]_vars

\* a live event with OSC2 that has not rung out yet: both are queued
C9_Witness ==
    /\ ~ev.isSequenced /\ ~ev.hasMinLength
    /\ ev.queuedForDeletion /\ ~ev.deleteMe
    /\ osc2 # NullEvent /\ osc2.queuedForDeletion /\ ~osc2.deleteMe

\* C10: a live event is flagged deleteMe only after deletion was requested
\* and at least bytes_per_bar / 32 samples were synthesized since, and the
\* synthesize call that exhausts the minimum length of a queued event flags it
C10_RingOutBeforeDeletion ==
    /\ []((~ev.isSequenced /\ ev.deleteMe)
             => (h.requested /\ h.ringOut >= BytesPerBar \div 32))
    /\ [][(/\ SynthesizeCall
           /\ ev.queuedForDeletion /\ ev.minLength > 0
           /\ ev'.minLength <= 0)
              => ev'.deleteMe]_vars

\* the live event rang out after the request and is flagged
C10_Witness ==
    /\ ~ev.isSequenced /\ ev.deleteMe /\ ev.hasMinLength
    /\ h.requested /\ h.ringOut >= BytesPerBar \div 32

(***************************************************************************)
(* Specification SpecStream: one sequenced event, with or without OSC2, in *)
(* streaming mode: the sequencer hands it one callback window after the    *)
(* other, in any order, and reconfigures it in between.                    *)
(***************************************************************************)

\* mutant: only a window that starts inside the event is rendered
StreamOverlapsStartInside(e, bufferPos) ==
    bufferPos >= e.sampleStart /\ bufferPos < e.sampleEnd

\* mixBuffer: the test on the window [bufferPos, bufferPos + BUFFER_SIZE)
StreamOverlaps(e, bufferPos) ==
    /\ (bufferPos >= e.sampleStart \/ bufferPos + BufferSize > e.sampleStart)
    /\ bufferPos < e.sampleEnd

\* mixBuffer: the write index the snippet starts from
StreamWriteIndex(e, bufferPos) ==
    IF e.sampleStart > bufferPos THEN 0 ELSE bufferPos - e.sampleStart

\* mixBuffer: where the snippet goes in the output buffer
StreamWriteOffset(e, bufferPos) ==
    IF e.sampleStart > bufferPos THEN e.sampleStart - bufferPos ELSE 0

\* mixBuffer: the rendered buffer (rn) is merged into the output buffer
StreamMerged(rn, outputBuffer, writeOffset) ==
    [e        |-> rn.e,
     o        |-> rn.o,
     out      |-> MergeBuffers(outputBuffer, rn.e.buffer, 0, writeOffset, 1).buf,
     rendered |-> TRUE,
     fault    |-> rn.fault]

\* mixBuffer: what calculateBuffers left (cb) at the end of the write
StreamRecalculated(cb, m) ==
    [e |-> cb.e, o |-> cb.o, out |-> m.out, rendered |-> TRUE,
     fault |-> Worst(m.fault, cb.fault)]

\* mixBuffer: reset of properties at end of write
StreamReset(m, d) ==
    IF m.e.cacheWriteIndex >= m.e.sampleLength
    THEN StreamRecalculated(CalculateBuffers(m.e, m.o, d), m)
    ELSE m

\* SynthEvent::mixBuffer when EVENT_CACHING is disabled
MixBuffer(e, o, outputBuffer, bufferPos, d) ==
    IF StreamOverlaps(e, bufferPos)
    THEN LET e1 == [e EXCEPT !.cacheWriteIndex = StreamWriteIndex(e, bufferPos)]
         IN  StreamReset(
                 StreamMerged(RenderAll(e1, o, e1.buffer, TRUE, d), outputBuffer,
                              StreamWriteOffset(e, bufferPos)),
                 d)
    ELSE [e |-> e, o |-> o, out |-> outputBuffer, rendered |-> FALSE, fault |-> "none"]

\* at half the sample rate the phase alternates between two values
StreamFrequencies == {SAMPLE_RATE \div 2}
StreamInstruments ==
    { i \in Instruments : i.waveform = "SAW" /\ i.osc2waveform = "SINE" }
Windows == 0..MaxBufferPos

\* the output buffer the sequencer hands to mixBuffer: it holds 1 in every
\* sample
OutputBuffer == MixTarget(OutputChannels, BufferSize, 1)

InitStream ==
    /\ eng = [EVENT_CACHING |-> FALSE]
    /\ r = NoRender
    /\ mix = NoMix
    /\ h = FreshHistory
    /\ \E f \in StreamFrequencies, pos \in Positions, len \in Lengths,
          instr \in StreamInstruments :
          Constructed(NewSequencedEvent(f, pos, len, instr, FALSE, FALSE), FALSE)

\* the effect of mixBuffer( input, bufferPos, .. ) (res)
Streamed(res, input, bufferPos) ==
    /\ ev' = res.e
    /\ osc2' = res.o
    /\ mix' = [phase |-> "stream", bufferPos |-> bufferPos, input |-> input,
               outputBuffer |-> res.out, rendered |-> res.rendered]
    /\ h' = [h EXCEPT !.fault = res.fault]
    /\ UNCHANGED <<r, eng>>

\* mixBuffer( outputBuffer, bufferPos, .. )
MixBufferOf(bufferPos) ==
    /\ Alive /\ ~eng.EVENT_CACHING /\ ev.isSequenced
    /\ Streamed(MixBuffer(ev, osc2, OutputBuffer, bufferPos, MaxNesting),
                OutputBuffer, bufferPos)

MixBufferCall == \E bufferPos \in Windows : MixBufferOf(bufferPos)

\* updateProperties between two callbacks
StreamUpdateCall ==
    /\ Alive
    /\ \E pos \in Positions, len \in Lengths, instr \in StreamInstruments :
          Reconfigured(UpdateProperties(ev, osc2, pos, len, instr, MaxNesting))

NextStream ==
    \/ MixBufferCall
    \/ StreamUpdateCall

SpecStream == InitStream /\ [][NextStream]_vars

\* the window of the last mixBuffer call overlapped the event as it was
WindowOverlaps(e, bufferPos) ==
    bufferPos < e.sampleEnd /\ bufferPos + BufferSize > e.sampleStart

\* C11: in streaming mode mixBuffer renders and mixes exactly when the
\* window [bufferPos, bufferPos + BUFFER_SIZE) overlaps the event; without
\* overlap the output buffer, the event's buffer and its write index are
\* unchanged
C11_StreamOverlap ==
    [][(mix'.phase = "stream"
        /\ MixBufferOf(mix'.bufferPos))
          => /\ mix'.rendered <=> WindowOverlaps(ev, mix'.bufferPos)
             /\ ~WindowOverlaps(ev, mix'.bufferPos)
                   => /\ mix'.outputBuffer = mix'.input
                      /\ ev'.buffer = ev.buffer
                      /\ ev'.cacheWriteIndex = ev.cacheWriteIndex]_vars

\* a window that starts before the event and reaches into it was rendered
\* and mixed into an output buffer that held samples already
C11_Witness ==
    /\ mix.phase = "stream" /\ mix.rendered
    /\ mix.bufferPos < ev.sampleStart
    /\ mix.outputBuffer # mix.input
    /\ mix.input.buffers[1][1] > 0

(***************************************************************************)
(* SpecRegistry: the instrument's collections. Events are constructed and  *)
(* destroyed one call at a time; eng holds the instrument's audioEvents    *)
(* and liveEvents (vectors of pointers: sequences of addresses) and the    *)
(* events allocated (address -> the event and its OSC2). ev and osc2 are   *)
(* the event of the last call, mix names the call. A pointer left behind   *)
(* in a collection after its event was destroyed is recorded as a fault:   *)
(* the sequencer dereferences it in the next callback.                     *)
(***************************************************************************)
Addresses == 1..MaxEvents

\* where the OSC2 of the event at address a lives: no address of an event
\* that was constructed by a caller
Osc2Address(a) == a + MaxEvents

\* the values the uninitialised loop index of the destructor can hold; the
\* comparison with size() is unsigned: a negative index ends the loop
UninitialisedInts == (0 - 1)..MaxEvents

Free == [null |-> TRUE]

NoInstrument ==
    [EVENT_CACHING |-> TRUE, audioEvents |-> <<>>, liveEvents |-> <<>>,
     allocated |-> [a \in Addresses |-> Free]]

\* number of entries of a collection that point to address a
Count(list, a) == Cardinality({ k \in 1..Len(list) : list[k] = a })

\* a collection without its entries that point to address a
Others(list, a) == SelectSeq(list, LAMBDA x : x # a)

\* the end of init, mutated: the event is registered whatever its parent flag
RegisterAlways(inst, e, this) ==
    IF e.isSequenced
    THEN [inst EXCEPT !.audioEvents = Append(@, this)]
    ELSE [inst EXCEPT !.liveEvents = Append(@, this)]

\* the end of init: the event at address this is added to the sequenced or
\* to the live collection of the instrument, unless it has a parent
Register(inst, e, this) ==
    IF e.isSequenced
    THEN IF ~e.hasParent THEN [inst EXCEPT !.audioEvents = Append(@, this)] ELSE inst
    ELSE IF ~e.hasParent THEN [inst EXCEPT !.liveEvents = Append(@, this)] ELSE inst

\* vector::erase( begin() + i ), i a C++ index
EraseAt(list, i) == SubSeq(list, 1, i) \o SubSeq(list, i + 2, Len(list))

\* the loop of the destructor over a collection, entered with index i: the
\* first entry at or after i that points to this is erased
RemoveFrom(list, this, i) ==
    LET hits == { k \in 0..(Len(list) - 1) : k >= i /\ list[k + 1] = this }
    IN  IF i < 0 \/ hits = {} THEN list
        ELSE EraseAt(list, CHOOSE k \in hits : \A l \in hits : k <= l)

\* the end of ~SynthEvent for event e at address this: the collection is
\* chosen by isSequenced
Unregister(inst, e, this, i) ==
    IF ~e.isSequenced
    THEN [inst EXCEPT !.liveEvents = RemoveFrom(@, this, i)]
    ELSE [inst EXCEPT !.audioEvents = RemoveFrom(@, this, i)]

\* SynthEvent::~SynthEvent for event e with OSC2 o at address this: the
\* destructor of OSC2 runs first (destroyOSC2), with its own loop index j
DestroySynthEvent(inst, e, o, this, i, j) ==
    LET inst1 == IF o # NullEvent THEN Unregister(inst, o, Osc2Address(this), j) ELSE inst
    IN  [Unregister(inst1, e, this, i) EXCEPT !.allocated[this] = Free]

RegistryInstruments ==
    { i \in Instruments : i.waveform = "SAW" /\ i.osc2waveform = "SINE" }

InitRegistry ==
    /\ ev = NullEvent /\ osc2 = NullEvent /\ r = NoRender /\ h = FreshHistory
    /\ mix = NoMix
    /\ eng = NoInstrument

\* the effect of a constructor that left res, on the object at address this
ConstructedAt(res, this) ==
    /\ ev' = res.e
    /\ osc2' = res.o
    /\ eng' = Register([eng EXCEPT !.allocated[this] = [e |-> res.e, o |-> res.o]], res.e, this)
    /\ mix' = [phase |-> "new", this |-> this]
    /\ h' = [h EXCEPT !.fault = res.fault]
    /\ UNCHANGED r

Room == Len(eng.audioEvents) + Len(eng.liveEvents) < MaxEvents

NewSequencedCall ==
    /\ Alive /\ Room
    /\ \E this \in Addresses, instr \in RegistryInstruments, hasParent \in BOOLEAN :
          /\ eng.allocated[this] = Free
          /\ ConstructedAt(NewSequencedEvent(SAMPLE_RATE, 0, LengthRes, instr, FALSE, hasParent), this)

NewLiveCall ==
    /\ Alive /\ Room
    /\ \E this \in Addresses, instr \in RegistryInstruments, hasParent \in BOOLEAN :
          /\ eng.allocated[this] = Free
          /\ ConstructedAt(NewLiveEvent(SAMPLE_RATE, instr, hasParent), this)

\* delete of the event at address this
DeleteCall ==
    /\ Alive
    /\ \E this \in Addresses, i \in UninitialisedInts, j \in UninitialisedInts :
          /\ eng.allocated[this] # Free
          /\ (eng.allocated[this].o = NullEvent => j = 0)
          /\ eng' = DestroySynthEvent(eng, eng.allocated[this].e, eng.allocated[this].o, this, i, j)
          /\ ev' = NullEvent /\ osc2' = NullEvent
          /\ mix' = [phase |-> "delete", this |-> this]
          /\ h' = [h EXCEPT !.fault =
                      IF Count(eng'.audioEvents, this) + Count(eng'.liveEvents, this) > 0
                      THEN "dangling event" ELSE "none"]
          /\ UNCHANGED r

NextRegistry == NewSequencedCall \/ NewLiveCall \/ DeleteCall

SpecRegistry == InitRegistry /\ [][NextRegistry]_vars

C13_DestroyedIsUnregistered ==
    [][mix'.phase = "delete"
          => /\ Count(eng'.audioEvents, mix'.this) = 0
             /\ Count(eng'.liveEvents, mix'.this) = 0
             /\ Others(eng'.audioEvents, mix'.this) = Others(eng.audioEvents, mix'.this)
             /\ Others(eng'.liveEvents, mix'.this) = Others(eng.liveEvents, mix'.this)
             /\ eng.allocated[mix'.this].e.hasParent
                   => /\ eng'.audioEvents = eng.audioEvents
                      /\ eng'.liveEvents = eng.liveEvents]_vars

(***************************************************************************)
(* SpecCache: cache() as one call on a sequenced event that was built      *)
(* with or without the parent flag (an event with the parent flag owns no  *)
(* buffer), with updateProperties in between. mix names the last call.     *)
(***************************************************************************)
CacheInstruments ==
    { i \in Instruments : i.waveform = "SAW" /\ i.osc2waveform = "SINE" }

InitCache ==
    /\ eng = [EVENT_CACHING |-> TRUE]
    /\ r = NoRender
    /\ mix = NoMix
    /\ h = FreshHistory
    /\ \E pos \in Positions, len \in Lengths, instr \in CacheInstruments,
          auto \in BOOLEAN, hasParent \in BOOLEAN :
          Constructed(NewSequencedEvent(SAMPLE_RATE, pos, len, instr, auto, hasParent), FALSE)

\* the effect of a call that left res
Called(res, call) ==
    /\ ev' = res.e
    /\ osc2' = res.o
    /\ h' = [h EXCEPT !.fault = res.fault]
    /\ mix' = [phase |-> call]
    /\ UNCHANGED <<r, eng>>

\* cache( false ), from its call to its return
CacheOnceCall ==
    /\ Alive
    /\ ev.cacheWriteIndex <= MaxWriteIndex
    /\ Called(Cache(ev, osc2, MaxNesting), "cache")

CacheUpdateCall ==
    /\ Alive
    /\ \E pos \in Positions, len \in Lengths, instr \in CacheInstruments :
          Called(UpdateProperties(ev, osc2, pos, len, instr, MaxNesting), "update")

NextCache == CacheOnceCall \/ CacheUpdateCall

SpecCache == InitCache /\ [][NextCache]_vars

\* C14: cache() on an event without a buffer changes nothing: caching,
\* cachingCompleted, cancel and the write index are as before, and no
\* render pass ran (phase and OSC2 are as before, nothing failed)
C14_CacheWithoutBuffer ==
    [][(mix'.phase = "cache" /\ ev.buffer = NullBuffer)
          => /\ ev'.caching = ev.caching
             /\ ev'.cachingCompleted = ev.cachingCompleted
             /\ ev'.cancel = ev.cancel
             /\ ev'.cacheWriteIndex = ev.cacheWriteIndex
             /\ ev'.phase = ev.phase
             /\ ev'.buffer = NullBuffer
             /\ osc2' = osc2
             /\ h'.fault = "none"]_vars

\* cache() returned on an event without a buffer that had been updated
C14_Witness ==
    /\ mix.phase = "cache" /\ ev.buffer = NullBuffer
    /\ ev.autoCache /\ ev.position = MaxPosition /\ ~ev.caching

(***************************************************************************)
(* SpecPhase: the phase accumulator. One sequenced event without OSC2 is   *)
(* cached sample by sample; between two passes updateProperties changes    *)
(* its waveform, to PWM and back.                                          *)
(***************************************************************************)
PhaseFrequencies == {1, 2}   \* below the sample rate: phaseIncr < 1.0
PhaseInstruments ==
    { [waveform |-> w, volume |-> 1, osc2active |-> FALSE, osc2waveform |-> "SINE",
       osc2detune |-> 0, osc2octaveShift |-> 0, osc2fineShift |-> 0] :
         w \in {"SAW", "PWM"} }

InitPhase ==
    /\ eng = [EVENT_CACHING |-> TRUE]
    /\ r = NoRender
    /\ mix = NoMix
    /\ h = FreshHistory
    /\ \E f \in PhaseFrequencies, instr \in PhaseInstruments :
          Constructed(NewSequencedEvent(f, 0, LengthRes, instr, FALSE, FALSE), FALSE)

\* updateProperties between two passes
PhaseUpdateCall ==
    /\ Alive /\ ~Rendering
    /\ \E instr \in PhaseInstruments :
          Reconfigured(UpdateProperties(ev, osc2, ev.position, ev.length, instr, MaxNesting))

NextPhaseSpec ==
    CacheCall \/ RenderSample \/ RenderOsc2 \/ RenderReturn \/ PhaseUpdateCall

SpecPhase == InitPhase /\ [][NextPhaseSpec]_vars

\* C15: at the end of every sample iteration of a waveform other than PWM
\* the phase is at most MAX_PHASE (1.0), whatever passes and property
\* updates came before
C15_PhaseWrapped ==
    [][(r.pc = "loop" /\ ev'.type # "PWM") => ev'.phase <= MAX_PHASE]_vars

(***************************************************************************)
(* SpecClone: AudioBuffer::clone and silenceBuffers on the clone. The      *)
(* sample arrays live in a store (a sequence of arrays, a pointer is an    *)
(* index into it) and a buffer holds one pointer per channel, so that two  *)
(* buffers can share an array. mix holds the store, the original, what the *)
(* original was made of, and the clone.                                    *)
(***************************************************************************)
\* BufferPool::getSilentBuffer: the silent buffer of the pool
SilentBuffer(n) == Zeros(n)

\* memcpy( target, source, n * sizeof( SAMPLE_TYPE )) on two arrays
Memcpy(target, source, n) ==
    [k \in 1..Len(target) |-> IF k <= n THEN source[k] ELSE target[k]]

\* new AudioBuffer( aAmountOfChannels, aBufferSize ) in a store: one new
\* silent array per channel
RECURSIVE Allocate(_, _, _)
Allocate(store, channels, n) ==
    IF channels = 0 THEN store ELSE Allocate(Append(store, Zeros(n)), channels - 1, n)

NewBufferIn(store, aAmountOfChannels, aBufferSize) ==
    [store  |-> Allocate(store, aAmountOfChannels, aBufferSize),
     buffer |-> [null |-> FALSE, loopeable |-> FALSE,
                 amountOfChannels |-> aAmountOfChannels, bufferSize |-> aBufferSize,
                 buffers |-> [c \in 1..aAmountOfChannels |-> Len(store) + c]]]

\* clone(), mutated: the output shares the arrays of the original
CloneShared(store, b) ==
    [store  |-> store,
     buffer |-> [b EXCEPT !.loopeable = FALSE]]

\* AudioBuffer::clone of buffer b: a new buffer of the same shape, every
\* channel copied
Clone(store, b) ==
    LET out == NewBufferIn(store, b.amountOfChannels, b.bufferSize)
    IN  [store  |-> [p \in 1..Len(out.store) |->
                        IF \E c \in 1..b.amountOfChannels : out.buffer.buffers[c] = p
                        THEN LET c == CHOOSE c \in 1..b.amountOfChannels :
                                           out.buffer.buffers[c] = p
                             IN  Memcpy(out.store[p], out.store[b.buffers[c]], b.bufferSize)
                        ELSE out.store[p]],
         buffer |-> out.buffer]

\* AudioBuffer::silenceBuffers of buffer b in a store: the silent buffer of
\* the pool is copied over a buffer of the engine's size, any other buffer
\* is filled with zeros
SilenceBuffersIn(store, b) ==
    [p \in 1..Len(store) |->
        IF \E c \in 1..b.amountOfChannels : b.buffers[c] = p
        THEN IF b.bufferSize = BufferSize
             THEN Memcpy(store[p], SilentBuffer(b.bufferSize), b.bufferSize)
             ELSE [k \in 1..Len(store[p]) |-> IF k <= b.bufferSize THEN 0 ELSE store[p][k]]
        ELSE store[p]]

\* the samples of buffer b, per channel
Samples(store, b) == [c \in 1..b.amountOfChannels |-> store[b.buffers[c]]]

\* the originals: every channel a ramp above an offset, no sample is zero
Ramp(n, offset) == [k \in 1..n |-> k + offset]

InitClone ==
    /\ ev = NullEvent /\ osc2 = NullEvent /\ r = NoRender /\ h = FreshHistory
    /\ eng = NoEngine
    /\ \E ch \in 1..MaxChannels, n \in 1..MaxFrames, l \in BOOLEAN,
          offsets \in [1..MaxChannels -> 0..MaxSample] :
          /\ \A c \in (ch + 1)..MaxChannels : offsets[c] = 0
          /\ mix = [phase    |-> "made",
                    store    |-> [c \in 1..ch |-> Ramp(n, offsets[c])],
                    original |-> [null |-> FALSE, loopeable |-> l,
                                  amountOfChannels |-> ch, bufferSize |-> n,
                                  buffers |-> [c \in 1..ch |-> c]],
                    made     |-> [c \in 1..ch |-> Ramp(n, offsets[c])],
                    output   |-> NullBuffer]

\* output = original->clone()
Cloned(res) ==
    mix' = [mix EXCEPT !.phase = "cloned", !.store = res.store, !.output = res.buffer]

CloneCall ==
    /\ mix.phase = "made"
    /\ Cloned(Clone(mix.store, mix.original))
    /\ UNCHANGED <<ev, osc2, r, h, eng>>

\* output->silenceBuffers()
SilenceCloneCall ==
    /\ mix.phase = "cloned"
    /\ mix' = [mix EXCEPT !.phase = "silenced",
                          !.store = SilenceBuffersIn(mix.store, mix.output)]
    /\ UNCHANGED <<ev, osc2, r, h, eng>>

NextClone == CloneCall \/ SilenceCloneCall

SpecClone == InitClone /\ [][NextClone]_vars

\* C16: the clone has the channel count, the frame count and the samples
\* of the original; after silenceBuffers on the clone every sample of the
\* clone is zero and every sample of the original is what it was
C16_CloneThenSilence ==
    /\ mix.phase \in {"cloned", "silenced"}
          => /\ mix.output.amountOfChannels = mix.original.amountOfChannels
             /\ mix.output.bufferSize = mix.original.bufferSize
             /\ Samples(mix.store, mix.original) = mix.made
    /\ mix.phase = "cloned"
          => Samples(mix.store, mix.output) = mix.made
    /\ mix.phase = "silenced"
          => \A c \in 1..mix.output.amountOfChannels :
                Samples(mix.store, mix.output)[c] = Zeros(mix.output.bufferSize)

\* the clone of a stereo buffer of the engine's size was silenced
C16_Witness ==
    /\ mix.phase = "silenced"
    /\ mix.original.bufferSize = BufferSize /\ mix.original.amountOfChannels = 2
    /\ Samples(mix.store, mix.output)[2] = Zeros(BufferSize)
    /\ Samples(mix.store, mix.original)[2][1] > 0

\* the clone of a buffer of another size was silenced
C16_WitnessOtherSize ==
    /\ mix.phase = "silenced"
    /\ mix.original.bufferSize # BufferSize
    /\ Samples(mix.store, mix.original)[1][1] > 0

(***************************************************************************)
(* Properties of Spec: the restart of a cancelled caching pass             *)
(***************************************************************************)
\* the pass in progress returns, cancelled, on an event with autoCache
CancelledAutoCacheReturn ==
    /\ r.pc = "end" /\ r'.pc = "idle"
    /\ ev.cancel /\ ev.autoCache /\ ev.isSequenced /\ ~ev.hasParent

\* C17: when a caching pass of a sequenced event with autoCache returns
\* after a cancellation, the chain render -> calculateBuffers -> cache ->
\* render has ended (the stack was not exhausted) and has left a completed
\* cache: cachingCompleted, not caching, no cancellation pending
C17_RestartTerminates ==
    [][CancelledAutoCacheReturn
          => /\ h'.fault # "stack overflow"
             /\ h'.fault = "none"
                   => ev'.cachingCompleted /\ ~ev'.caching /\ ~ev'.cancel]_vars

(***************************************************************************)
(* SpecReturn: render passes in both modes, with and without OSC2. One     *)
(* sequenced event is rendered sample by sample by cache() or getBuffer()  *)
(* while another activity calls updateProperties between any two samples,  *)
(* with instruments that switch OSC2 on and off.                           *)
(***************************************************************************)
ReturnInstruments ==
    { i \in Instruments : i.waveform = "SAW" /\ i.osc2waveform = "SINE" }

InitReturn ==
    /\ eng \in { [EVENT_CACHING |-> c] : c \in BOOLEAN }
    /\ r = NoRender
    /\ mix = NoMix
    /\ h = FreshHistory
    /\ \E len \in Lengths, instr \in ReturnInstruments, auto \in BOOLEAN :
          Constructed(NewSequencedEvent(SAMPLE_RATE, 0, len, instr, auto, FALSE), FALSE)

ReturnUpdateCall ==
    /\ Alive
    /\ \E len \in Lengths, instr \in ReturnInstruments :
          Reconfigured(UpdateProperties(ev, osc2, 0, len, instr, MaxNesting))

NextReturn ==
    CacheCall \/ GetBufferCall \/ RenderSample \/ RenderOsc2 \/ RenderReturn \/ ReturnUpdateCall

SpecReturn == InitReturn /\ [][NextReturn]_vars

\* the pass in progress returns
PassReturns == r.pc = "end" /\ r'.pc = "idle" /\ h'.fault = "none"

\* the pass of OSC2 within the pass in progress runs and returns
SecondaryPassReturns ==
    /\ r.pc = "osc2" /\ r'.pc = "end" /\ h'.fault = "none"
    /\ r.hasOSC2 /\ ~ev.cancel /\ osc2 # NullEvent

\* C18: when a render pass returns, _cancel is false: in streaming and in
\* caching mode, cancelled or not, for the event and for its OSC2
C18_CancelClearedOnReturn ==
    [][/\ PassReturns => ~ev'.cancel
       /\ SecondaryPassReturns => ~osc2'.cancel]_vars


\* a cancelled pass of an event with OSC2 has returned, in streaming mode
C18_Witness ==
    /\ r.pc = "idle" /\ h.owed /\ Alive
    /\ ~eng.EVENT_CACHING /\ osc2 # NullEvent
    /\ ~ev.cancel

\* a cancelled pass has returned in caching mode
C18_WitnessCaching ==
    /\ r.pc = "idle" /\ h.owed /\ Alive
    /\ eng.EVENT_CACHING /\ ~ev.cancel

(***************************************************************************)
(* SpecRace: updateProperties in two steps. render() and updateProperties  *)
(* share _caching and _cancel without synchronisation: updateProperties    *)
(* reads _caching and then, in another step, sets _cancel or calls         *)
(* calculateBuffers, and the pass of cache() moves in between. One         *)
(* sequenced event without OSC2 in caching mode; mix holds the call of     *)
(* updateProperties in progress.                                           *)
(***************************************************************************)
InitRace ==
    /\ eng = [EVENT_CACHING |-> TRUE]
    /\ r = NoRender
    /\ mix = NoMix
    /\ h = FreshHistory
    /\ \E pos \in Positions, len \in Lengths, instr \in SpecInstruments :
          Constructed(NewSequencedEvent(SAMPLE_RATE, pos, len, instr, FALSE, FALSE), FALSE)

\* updateProperties up to its test of _caching
Entered(am) ==
    /\ ev' = am.e
    /\ osc2' = am.o
    /\ mix' = [phase |-> "update", caching |-> am.e.caching]
    /\ UNCHANGED <<r, h, eng>>

UpdateEnterCall ==
    /\ Alive /\ mix.phase = "none"
    /\ \E pos \in Positions, len \in Lengths, instr \in SpecInstruments :
          Entered(UpdatedFields(ev, osc2, pos, len, instr))

\* the rest of updateProperties
Acted(res) ==
    /\ ev' = res.e
    /\ osc2' = res.o
    /\ h' = [h EXCEPT !.fault = res.fault,
                      !.passCancel = @ \/ (Rendering /\ res.e.cancel)]
    /\ mix' = NoMix
    /\ UNCHANGED <<r, eng>>

UpdateActCall ==
    /\ Alive /\ mix.phase = "update"
    /\ Acted(CancelOrCalculateSeen([e |-> ev, o |-> osc2], mix.caching, MaxNesting))

NextRace ==
    CacheCall \/ RenderSample \/ RenderOsc2 \/ RenderReturn \/ UpdateEnterCall \/ UpdateActCall

SpecRace == InitRace /\ [][NextRace]_vars

\* no pass and no call of updateProperties in progress, not locked, no
\* update pending
AtRest ==
    /\ Alive /\ ~Rendering /\ mix.phase = "none"
    /\ ~ev.locked /\ ~ev.updateAfterUnlock

\* C19: in caching mode, whenever the sequenced event is at rest with
\* cachingCompleted set, its sampleStart and sampleLength are those of its
\* position and length: no reconfiguration made during a pass is lost
C19_CompletedCacheIsCurrent ==
    (AtRest /\ eng.EVENT_CACHING /\ ev.isSequenced /\ ev.cachingCompleted)
        => /\ ev.sampleStart = ev.position * BytesPerTick
           /\ ev.sampleLength = (ev.length * BytesPerTick) \div LengthRes

(***************************************************************************)
(* Properties of SpecReturn: OSC2 during a pass of its parent              *)
(***************************************************************************)
\* C20: while a pass of an event with OSC2 is in progress no call of
\* updateProperties destroys OSC2, and the pass never uses an OSC2 that
\* was destroyed
C20_Osc2KeptDuringRender ==
    /\ [][(Rendering /\ r.hasOSC2 /\ osc2 # NullEvent) => osc2' # NullEvent]_vars
    /\ [](h.fault # "use after free")

(***************************************************************************)
(* SpecLock: lock(), updateProperties and unlock() from two activities.    *)
(* unlock() is three statements on fields that nothing guards: _locked =   *)
(* false, the test of _updateAfterUnlock with calculateBuffers(), and      *)
(* _updateAfterUnlock = false; the calls of the other activity run between *)
(* them. One sequenced event, never rendered. mix holds the call of        *)
(* unlock() in progress and, as observations, the requests made:           *)
(*   pending: calculateBuffers was deferred and has not run since,         *)
(*   owed:    that was so when the unlock() in progress was called.        *)
(***************************************************************************)
NoUnlock == [phase |-> "none", pending |-> FALSE]

InitLock ==
    /\ eng = [EVENT_CACHING |-> TRUE]
    /\ r = NoRender
    /\ mix = NoUnlock
    /\ h = FreshHistory
    /\ \E pos \in Positions, len \in Lengths, instr \in SpecInstruments :
          Constructed(NewSequencedEvent(SAMPLE_RATE, pos, len, instr, FALSE, FALSE), FALSE)

\* the effect on the event of a call that left res
Left(res) ==
    /\ ev' = res.e
    /\ osc2' = res.o
    /\ h' = [h EXCEPT !.fault = res.fault]
    /\ UNCHANGED <<r, eng>>

\* lock() by either activity
LockAgainCall ==
    /\ Alive /\ ~ev.locked
    /\ Left(Ok(LockEvent(ev), osc2))
    /\ UNCHANGED mix

\* updateProperties by either activity: its calculateBuffers() is deferred
\* when the event is locked
LockedUpdateCall ==
    /\ Alive
    /\ \E pos \in Positions, len \in Lengths, instr \in SpecInstruments :
          Left(UpdateProperties(ev, osc2, pos, len, instr, MaxNesting))
    /\ mix' = [mix EXCEPT !.pending = ev.locked]

\* unlock(): _locked = false
UnlockEnterCall ==
    /\ Alive /\ mix.phase = "none" /\ ev.locked
    /\ Left(Ok([ev EXCEPT !.locked = FALSE], osc2))
    /\ mix' = [phase |-> "test", pending |-> mix.pending, owed |-> mix.pending]

\* unlock(): if ( _updateAfterUnlock ) calculateBuffers()
UnlockTest ==
    /\ Alive /\ mix.phase = "test"
    /\ IF ev.updateAfterUnlock
       THEN /\ Left(CalculateBuffers(ev, osc2, MaxNesting))
            /\ mix' = [mix EXCEPT !.phase = "clear",
                                  !.pending = ev.locked,
                                  !.owed = @ /\ ev.locked]
       ELSE /\ Left(Ok(ev, osc2))
            /\ mix' = [mix EXCEPT !.phase = "clear"]

\* unlock(): _updateAfterUnlock = false, and the return
UnlockClear ==
    /\ Alive /\ mix.phase = "clear"
    /\ Left(Ok([ev EXCEPT !.updateAfterUnlock = FALSE], osc2))
    /\ mix' = [phase |-> "none", pending |-> mix.pending]

NextLock ==
    LockAgainCall \/ LockedUpdateCall \/ UnlockEnterCall \/ UnlockTest \/ UnlockClear

SpecLock == InitLock /\ [][NextLock]_vars

\* C21: when unlock() returns, every recompute that was requested on the
\* locked event before unlock() was called has run; an unlock() that finds
\* no request pending recomputes nothing; _updateAfterUnlock is false when
\* unlock() returns
C21_DeferredRecomputeApplied ==
    [][/\ (mix.phase = "clear" /\ mix'.phase = "none")
             => ~mix.owed /\ ~ev'.updateAfterUnlock
       /\ (mix.phase = "test" /\ mix'.phase = "clear" /\ ~ev.updateAfterUnlock)
             => ev' = ev]_vars

(***************************************************************************)
(* Properties of SpecStream: where the samples of a window land            *)
(***************************************************************************)
\* the window positions of a callback at bufferPos that are outside the
\* event's range
OutsideRange(e, bufferPos) ==
    { k \in 0..(BufferSize - 1) :
         bufferPos + k < e.sampleStart \/ bufferPos + k >= e.sampleEnd }

\* C22: in streaming mode mixBuffer changes the output only at window
\* positions inside [sampleStart, sampleEnd): before the event's start and
\* at or after its end the output is what it was
C22_StreamInsideRange ==
    [][(mix'.phase = "stream" /\ MixBufferOf(mix'.bufferPos))
          => \A k \in OutsideRange(ev, mix'.bufferPos) :
                \A c \in 1..OutputChannels :
                   mix'.outputBuffer.buffers[c][k + 1] = mix'.input.buffers[c][k + 1]]_vars

(***************************************************************************)
(* Properties of SpecPhase: what a completed cache holds. A PWM sample is  *)
(* never 0: a 0 in the buffer of a PWM event is an index that no pass      *)
(* synthesized since the buffer was silenced.                              *)
(***************************************************************************)
\* C23: when cachingCompleted is set, every index of [0, sampleLength) of
\* the buffer was synthesized since the cache was last reset
C23_CompletedCacheIsFull ==
    (~Rendering /\ ev.cachingCompleted /\ ev.type = "PWM")
        => \A k \in 1..ev.sampleLength : ev.buffer.buffers[1][k] # 0


\* C24: a pass that was not cancelled leaves the write index advanced by
\* the number of samples it wrote, whatever the index it started from
C24_WriteIndexAdvance ==
    [][(r.pc = "end" /\ r'.pc = "idle" /\ ~ev.cancel)
          => ev'.cacheWriteIndex = ev.cacheWriteIndex + Len(h.dry1)]_vars

(***************************************************************************)
(* SpecRealloc: calculateBuffers called again and again on an event whose  *)
(* tempo, position and length never change. The event is live or           *)
(* sequenced, with or without OSC2, in either mode; between the calls a    *)
(* live event is synthesized and a sequenced one is cached, at a frequency *)
(* that leaves samples other than 0 in its buffer.                         *)
(***************************************************************************)
ReallocFrequencies == {1}

InitRealloc ==
    /\ eng \in { [EVENT_CACHING |-> c] : c \in BOOLEAN }
    /\ r = NoRender
    /\ mix = NoMix
    /\ h = FreshHistory
    /\ \E f \in ReallocFrequencies, instr \in LifeInstruments, seq \in BOOLEAN, len \in Lengths :
          Constructed(IF seq
                      THEN NewSequencedEvent(f, 0, len, instr, FALSE, FALSE)
                      ELSE NewLiveEvent(f, instr, FALSE),
                      FALSE)

\* cache( false ) of a sequenced event, from its call to its return
ReallocCacheCall ==
    /\ Alive /\ ev.isSequenced /\ eng.EVENT_CACHING
    /\ ev.cacheWriteIndex <= MaxWriteIndex
    /\ Reconfigured(Cache(ev, osc2, MaxNesting))

NextRealloc == SynthesizeCall \/ ReallocCacheCall \/ CalculateBuffersCall

SpecRealloc == InitRealloc /\ [][NextRealloc]_vars

\* C25: a call of calculateBuffers with tempo, position and length as they
\* were leaves the buffer of the event, sequenced or live, as it is, and
\* OSC2 without a buffer
C25_BufferKept ==
    [][(CalculateBuffersCall /\ ~ev.locked /\ ev.buffer # NullBuffer)
          => /\ ev'.buffer = ev.buffer
             /\ osc2' # NullEvent => osc2'.buffer = NullBuffer]_vars

(***************************************************************************)
(* SpecPluck: the ring buffer of a plucked-string (KARPLUS_STRONG) event,  *)
(* sequenced or live, under setFrequency. mix holds the fields the calls   *)
(* touch: _frequency, _ringBufferSize, _ringBuffer (a capacity and a queue *)
(* of samples), and which call of setFrequency made each sample (noise is  *)
(* written as the number of the call that drew it).                        *)
(***************************************************************************)
NullRing == [null |-> TRUE]

\* new RingBuffer( capacity )
NewRingBuffer(capacity) == [null |-> FALSE, capacity |-> capacity, items |-> <<>>]

\* RingBuffer::flush: the queue is emptied, the capacity stays
Flush(rb) == [rb EXCEPT !.items = <<>>]

\* RingBuffer::enqueue: at capacity the oldest sample makes room
Enqueue(rb, v) ==
    [rb EXCEPT !.items = IF Len(@) >= rb.capacity
                         THEN SubSeq(Append(@, v), Len(@) + 2 - rb.capacity, Len(@) + 1)
                         ELSE Append(@, v)]

RECURSIVE EnqueueNoise(_, _, _)
EnqueueNoise(rb, n, noise) ==
    IF n <= 0 THEN rb ELSE EnqueueNoise(Enqueue(rb, noise), n - 1, noise)

\* SynthEvent::initKarplusStrong on the fields k, noise being what
\* randomFloat() returns during the call
InitKarplusStrong(k, noise) ==
    LET prevRingBufferSize == k.ringBufferSize
        ringBufferSize     == SAMPLE_RATE \div k.frequency
        newSize            == ringBufferSize # prevRingBufferSize
        kept == IF k.isSequenced /\ k.ringBuffer # NullRing /\ newSize
                THEN NullRing ELSE k.ringBuffer
        rb   == IF kept = NullRing THEN NewRingBuffer(ringBufferSize) ELSE Flush(kept)
    IN  [k EXCEPT !.ringBufferSize = ringBufferSize,
                  !.ringBuffer     = EnqueueNoise(rb, ringBufferSize, noise),
                  !.prevRingBufferSize = prevRingBufferSize]

\* setFrequency of a KARPLUS_STRONG event: _frequency, then initKarplusStrong
SetFrequencyPlucked(k, aFrequency, noise) ==
    InitKarplusStrong([k EXCEPT !.frequency = aFrequency], noise)

PluckFrequencies == {1, 2, SAMPLE_RATE}

\* init() of a KARPLUS_STRONG event: no ring buffer, then setFrequency
InitPluck ==
    /\ ev = NullEvent /\ osc2 = NullEvent /\ r = NoRender /\ h = FreshHistory
    /\ eng = NoEngine
    /\ \E seq \in BOOLEAN, f \in PluckFrequencies :
          mix = [SetFrequencyPlucked([isSequenced |-> seq, frequency |-> f,
                                      ringBuffer |-> NullRing, ringBufferSize |-> 0,
                                      prevRingBufferSize |-> 0, calls |-> 0], f, 0)
                   EXCEPT !.calls = 0]

SetFrequencyCall ==
    /\ mix.calls < MaxPlucks
    /\ \E f \in PluckFrequencies :
          mix' = [SetFrequencyPlucked(mix, f, mix.calls + 1) EXCEPT !.calls = @ + 1]
    /\ UNCHANGED <<ev, osc2, r, h, eng>>

NextPluck == SetFrequencyCall

SpecPluck == InitPluck /\ [][NextPluck]_vars

\* C26: after a setFrequency call that changed the ring size, the ring
\* buffer has the new size as capacity and holds that many samples, all
\* drawn during the call
C26_RingMatchesFrequency ==
    (mix.calls > 0 /\ mix.ringBufferSize # mix.prevRingBufferSize)
        => /\ mix.ringBuffer.capacity = SAMPLE_RATE \div mix.frequency
           /\ mix.ringBuffer.items = [n \in 1..(SAMPLE_RATE \div mix.frequency) |-> mix.calls]

\* C27: an event that carries the parent flag never has an OSC2 of its own
C27_ParentedHasNoOsc2 == (ev # NullEvent /\ ev.hasParent) => osc2 = NullEvent

(***************************************************************************)
(* SpecArp: a sequenced event, with or without OSC2, whose instrument      *)
(* switches its arpeggiator on and off. mix holds the arpeggiator clones   *)
(* of the event and of its OSC2, the last call and its arguments, and what *)
(* the call found: the frequencies at its start and the base frequencies   *)
(* at the start of applyModules.                                           *)
(***************************************************************************)
NullArp == [null |-> TRUE]

ArpSteps == 0..MaxArpStep

\* Arpeggiator::clone of the instrument's arpeggiator, which is at step
NewArp(step) == [null |-> FALSE, step |-> step]

\* Arpeggiator::getPitchForStep: the pitch table is the arpeggiator's own;
\* here step 0 is the base frequency and every further step adds it once more
GetPitchForStep(step, baseFrequency) == baseFrequency * (step + 1)

\* Arpeggiator::peek when it signals a step boundary: the next step
PeekStep(a) == [a EXCEPT !.step = (@ + 1) % (MaxArpStep + 1)]

ArpFrequencies == {1, 2}

\* SynthEvent::applyModules on e, its OSC2 o and their arpeggiators, for an
\* instrument whose arpeggiator is active or not and stands at step
ApplyModulesArp(e, o, active, step) ==
    LET hasOSC2  == o # NullEvent
        OSC2freq == IF hasOSC2 THEN o.baseFrequency ELSE e.baseFrequency
        arp      == IF active THEN NewArp(step) ELSE NullArp
        \* _osc2->applyModules( instrument ): an OSC2 has no OSC2
        o1 == IF ~hasOSC2 THEN o
              ELSE IF active
              THEN SetFrequency(o, NullEvent, GetPitchForStep(arp.step, o.baseFrequency),
                                TRUE, FALSE).e
              ELSE SetFrequency(o, NullEvent, o.baseFrequency, FALSE, TRUE).e
        res == IF active
               THEN SetFrequency(e, o1, GetPitchForStep(arp.step, e.baseFrequency), TRUE, FALSE)
               ELSE [e |-> SetFrequency(e, NullEvent, e.baseFrequency, FALSE, TRUE).e,
                     o |-> IF hasOSC2
                           THEN SetFrequency(o1, NullEvent, OSC2freq, FALSE, TRUE).e
                           ELSE o1]
    IN  [e |-> res.e, o |-> res.o,
         arpeggiator |-> arp, osc2arpeggiator |-> IF hasOSC2 THEN arp ELSE NullArp,
         entry |-> [e |-> e.baseFrequency, o |-> OSC2freq]]

\* what updateProperties leaves: res of its last step, am of applyModules
WithModules(res, am) ==
    [e |-> res.e, o |-> res.o, fault |-> res.fault,
     arpeggiator |-> am.arpeggiator, osc2arpeggiator |-> am.osc2arpeggiator,
     entry |-> am.entry]

\* the end of updateProperties, after applyModules left am
AfterModules(am, d) == WithModules(CancelOrCalculate(am, d), am)

\* SynthEvent::updateProperties for an instrument with an arpeggiator
UpdatePropertiesArp(e, o, aPosition, aLength, aInstrument, active, step, d) ==
    AfterModules(ApplyModulesArp([e EXCEPT !.type = aInstrument.waveform,
                                           !.position = aPosition, !.length = aLength],
                                 IF aInstrument.osc2active
                                 THEN CreateOSC2([e EXCEPT !.type = aInstrument.waveform,
                                                           !.position = aPosition,
                                                           !.length = aLength],
                                                 o, aPosition, aLength \div LengthRes,
                                                 aInstrument)
                                 ELSE DestroyOSC2(o),
                                 active, step), d)

NoArp ==
    [phase |-> "none", arpeggiator |-> NullArp, osc2arpeggiator |-> NullArp,
     store |-> FALSE, active |-> FALSE, value |-> 0, shifts |-> 0,
     before |-> [e |-> 0, o |-> 0, arpeggiator |-> NullArp], entry |-> [e |-> 0, o |-> 0]]

\* what a call finds: the frequencies and the arpeggiator before it
Before == [e |-> ev.frequency,
           o |-> IF osc2 # NullEvent THEN osc2.frequency ELSE 0,
           arpeggiator |-> mix.arpeggiator]

InitArp ==
    /\ eng = [EVENT_CACHING |-> FALSE]
    /\ r = NoRender
    /\ mix = NoArp
    /\ h = FreshHistory
    /\ \E f \in ArpFrequencies, instr \in LifeInstruments :
          Constructed(NewSequencedEvent(f, 0, LengthRes, instr, FALSE, FALSE), FALSE)

\* the effect of an updateProperties call that left res
ArpUpdated(res, active) ==
    /\ ev' = res.e
    /\ osc2' = res.o
    /\ h' = [h EXCEPT !.fault = res.fault]
    /\ mix' = [mix EXCEPT !.phase = "update", !.active = active, !.store = FALSE,
                          !.value = 0, !.shifts = @ + 1,
                          !.arpeggiator = res.arpeggiator,
                          !.osc2arpeggiator = res.osc2arpeggiator,
                          !.before = Before, !.entry = res.entry]
    /\ UNCHANGED <<r, eng>>

\* updateProperties( position, length, instrument ), the instrument's
\* arpeggiator active or not
ArpUpdateCall ==
    /\ Alive /\ mix.shifts < MaxShifts
    /\ \E instr \in LifeInstruments, active \in BOOLEAN, step \in ArpSteps :
          ArpUpdated(UpdatePropertiesArp(ev, osc2, 0, LengthRes, instr, active, step,
                                         MaxNesting), active)

\* setFrequency( aFrequency, allOscillators, storeAsBaseFrequency )
ShiftFrequencyCall ==
    /\ Alive /\ mix.shifts < MaxShifts
    /\ \E f \in ArpFrequencies, all \in BOOLEAN, store \in BOOLEAN :
          LET res == SetFrequency(ev, osc2, f, all, store)
          IN  /\ ev' = res.e
              /\ osc2' = res.o
              /\ mix' = [mix EXCEPT !.phase = "set", !.store = store, !.value = f,
                                    !.shifts = @ + 1, !.before = Before]
    /\ UNCHANGED <<r, h, eng>>

\* render(), at the end of a sample: the arpeggiator signals a step
\* boundary and the frequency follows it
ArpeggiatorStep ==
    /\ Alive /\ mix.shifts < MaxShifts
    /\ mix.arpeggiator # NullArp
    /\ LET a   == PeekStep(mix.arpeggiator)
           f   == GetPitchForStep(a.step, ev.baseFrequency)
           res == SetFrequency(ev, osc2, f, TRUE, FALSE)
       IN  /\ ev' = res.e
           /\ osc2' = res.o
           /\ mix' = [mix EXCEPT !.phase = "step", !.store = FALSE, !.value = f,
                                 !.shifts = @ + 1, !.arpeggiator = a, !.before = Before]
    /\ UNCHANGED <<r, h, eng>>

NextArp == ArpUpdateCall \/ ShiftFrequencyCall \/ ArpeggiatorStep

SpecArp == InitArp /\ [][NextArp]_vars

\* C28: setFrequency with storeAsBaseFrequency = false, called directly, by
\* render for an arpeggiator step or by applyModules for an active
\* arpeggiator, sets frequency and phase increment and leaves the base
\* frequency of the event and of its OSC2 as it was; applyModules for an
\* instrument without an active arpeggiator sets the frequency of both
\* oscillators to their stored base frequency and leaves no arpeggiator
C28_BaseFrequencyKept ==
    [][/\ (mix'.phase \in {"set", "step"} /\ ~mix'.store)
             => /\ ev'.frequency = mix'.value
                /\ ev'.phaseIncr = (mix'.value * MAX_PHASE) \div SAMPLE_RATE
                /\ ev'.baseFrequency = ev.baseFrequency
                /\ osc2 # NullEvent => osc2'.baseFrequency = osc2.baseFrequency
       /\ (mix'.phase = "update" /\ mix'.active)
             => /\ ev'.frequency = GetPitchForStep(mix'.arpeggiator.step, ev.baseFrequency)
                /\ ev'.baseFrequency = ev.baseFrequency
                /\ osc2' # NullEvent => osc2'.baseFrequency = mix'.entry.o
       /\ (mix'.phase = "update" /\ ~mix'.active)
             => /\ mix'.arpeggiator = NullArp
                /\ ev'.frequency = mix'.entry.e
                /\ ev'.baseFrequency = ev.baseFrequency
                /\ osc2' # NullEvent => /\ osc2'.frequency = mix'.entry.o
                                        /\ osc2'.baseFrequency = mix'.entry.o]_vars

\* an arpeggiator had moved both oscillators away from their base
\* frequencies, and applyModules without it brought them back
C28_Witness ==
    /\ mix.phase = "update" /\ ~mix.active
    /\ mix.before.arpeggiator # NullArp
    /\ osc2 # NullEvent
    /\ mix.before.e # ev.baseFrequency /\ ev.frequency = ev.baseFrequency
    /\ mix.before.o # osc2.baseFrequency /\ osc2.frequency = osc2.baseFrequency
    /\ mix.before.o # 0

(***************************************************************************)
(* SpecLen: a sequenced event whose length is a number of half steps,      *)
(* given to the constructor and then to updateProperties. mix holds the    *)
(* last call and the position and length it was given.                     *)
(***************************************************************************)
FractionalLengths == 1..(MaxSteps * LengthRes)

LenFrequencies == {1, 2, SAMPLE_RATE}

\* n / d rounded to the nearest integer
Round(n, d) == (2 * n + d) \div (2 * d)

InitLen ==
    /\ eng \in { [EVENT_CACHING |-> c] : c \in BOOLEAN }
    /\ r = NoRender
    /\ h = FreshHistory
    /\ \E f \in LenFrequencies, pos \in Positions, len \in FractionalLengths,
          instr \in LifeInstruments :
          /\ Constructed(NewSequencedEvent(f, pos, len, instr, FALSE, FALSE), FALSE)
          /\ mix = [phase |-> "new", position |-> pos, length |-> len]

\* the effect of an updateProperties call that left res
LenUpdated(res, pos, len) ==
    /\ ev' = res.e
    /\ osc2' = res.o
    /\ h' = [h EXCEPT !.fault = res.fault]
    /\ mix' = [phase |-> "update", position |-> pos, length |-> len]
    /\ UNCHANGED <<r, eng>>

\* updateProperties( position, length, instrument )
LenUpdateCall ==
    /\ Alive
    /\ \E pos \in Positions, len \in FractionalLengths, instr \in LifeInstruments :
          LenUpdated(UpdateProperties(ev, osc2, pos, len, instr, MaxNesting), pos, len)

NextLen == LenUpdateCall

SpecLen == InitLen /\ [][NextLen]_vars

\* C29: after the constructor or updateProperties was given position P and
\* length L, sampleLength is L x ticks per step rounded and sampleStart is
\* P x ticks per step, whichever of the two was called
C29_LengthInSamples ==
    (Alive /\ mix.phase \in {"new", "update"})
        => /\ ev.sampleLength = Round(mix.length * BytesPerTick, LengthRes)
           /\ ev.sampleStart = mix.position * BytesPerTick
====
